---- MODULE Spec2Model ----
(***************************************************************************)
(* Balthasar: agent-scoped MCP tools and recursive delegation.             *)
(*                                                                         *)
(* The model follows src/src/lib/mcp.ts (setupTools) and                   *)
(* src/src/lib/llm-core.ts (chatWithOpenAI).  One invocation of            *)
(* chatWithOpenAI is a frame on `stack`; a call_agent delegation pushes a  *)
(* frame, a return or a throw pops it.  The language model, the MCP        *)
(* servers and the confirmation prompt are the environment: their answers  *)
(* are drawn from small sets.                                              *)
(***************************************************************************)
EXTENDS Integers, Sequences, FiniteSets, TLC

VARIABLES
    app,        \* loaded configuration: mcpServers, agents, tools_requires_confirmation
    world,      \* the MCP servers' behaviour: connects, lists, advertised tools
    opts,       \* CLI options of the top-level call: agent, agents, noTools, noConfirmations
    tzValid,    \* process.env.TZ names a time zone Intl.DateTimeFormat accepts
    script,     \* which family of model answers this run draws from
    phase,      \* "init" | "running" | "done" : the top-level call
    stack,      \* the chain of running chatWithOpenAI invocations, innermost last
    result,     \* what the top-level call returned or threw to the CLI
    inflight    \* awaited external operations: model call, tool call, prompt

vars == <<app, world, opts, tzValid, script, phase, stack, result, inflight>>

(***************************************************************************)
(* Program constants                                                       *)
(***************************************************************************)
MaxTurns == 32      \* for (let step = 0; step < 32; step++)
MaxDepth == 5       \* if (depth >= 5) refuse

(***************************************************************************)
(* Bounds of the model                                                     *)
(***************************************************************************)
MaxCalls  == 2      \* tool calls in one model response ("wide" runs)
WideTurns == 2      \* non-final responses per invocation in "wide" runs
StepCap   == 34     \* cap of the step counter, above MaxTurns

ToolNames   == {"x", "y", "z"}
PolicyNames == {"x", "y"}
AgentNames  == {"a", "b", "c"}
NoName      == ""

(***************************************************************************)
(* Helpers                                                                 *)
(***************************************************************************)
SeqToSet(s) == {s[i] : i \in 1..Len(s)}

(***************************************************************************)
(* setupTools (mcp.ts)                                                     *)
(***************************************************************************)
NoPolicy == [include_tools |-> {}, exclude_tools |-> {}]
NoAgent == [hasServers |-> FALSE, servers |-> <<>>,
            hasAllowed |-> FALSE, allowedAgents |-> {}]
NoScope == [has |-> FALSE, agentName |-> NoName, agent |-> NoAgent]
EmptySetup == [connected |-> <<>>, registry |-> <<>>, openAITools |-> <<>>]

\* agentScope?.agent?.servers?.[name]
AgentPolicy(agentScope, name) ==
    IF agentScope.has /\ agentScope.agent.hasServers
          /\ name \in DOMAIN agentScope.agent.servers
    THEN agentScope.agent.servers[name]
    ELSE NoPolicy

\* A mutation of the filter: an empty include list hides every tool.
ToolVisibleEmptyIncludeHides(toolName, sconf, policy) ==
    /\ toolName \notin sconf.exclude_tools
    /\ toolName \notin policy.exclude_tools
    /\ toolName \in sconf.include_tools
    /\ toolName \in policy.include_tools

\* A mutation of the filter: a tool the agent includes by name is visible
\* whatever the server's global lists say.
ToolVisibleAgentReadmits(toolName, sconf, policy) ==
    \/ toolName \in policy.include_tools
    \/ /\ toolName \notin sconf.exclude_tools
       /\ toolName \notin policy.exclude_tools
       /\ ~(sconf.include_tools # {} /\ toolName \notin sconf.include_tools)
       /\ ~(policy.include_tools # {} /\ toolName \notin policy.include_tools)

\* the filter predicate of setupTools
ToolVisible(toolName, sconf, policy) ==
    /\ toolName \notin sconf.exclude_tools
    /\ toolName \notin policy.exclude_tools
    /\ ~(sconf.include_tools # {} /\ toolName \notin sconf.include_tools)
    /\ ~(policy.include_tools # {} /\ toolName \notin policy.include_tools)

\* A mutation of the servers filter: the enabled flag is not looked at.
ServerEligibleIgnoresEnabled(sconf, agentScope) ==
    IF agentScope.has /\ agentScope.agent.hasServers
    THEN sconf.name \in DOMAIN agentScope.agent.servers
    ELSE FALSE

\* the servers filter: enabled, and a key of the agent's servers map
ServerEligible(sconf, agentScope) ==
    IF sconf.enabled = FALSE THEN FALSE
    ELSE IF agentScope.has /\ agentScope.agent.hasServers
         THEN sconf.name \in DOMAIN agentScope.agent.servers
         ELSE FALSE

\* A mutation of the registration: a name the registry already holds keeps
\* its first owner.
RegistrySetFirstWins(registry, name, server) ==
    IF \E i \in 1..Len(registry) : registry[i].name = name
    THEN registry
    ELSE Append(registry, [name |-> name, server |-> server])

\* registry.set(name, entry): a Map keeps the position of a key it already holds
RegistrySet(registry, name, server) ==
    IF \E i \in 1..Len(registry) : registry[i].name = name
    THEN [i \in 1..Len(registry) |->
            IF registry[i].name = name
            THEN [name |-> name, server |-> server]
            ELSE registry[i]]
    ELSE Append(registry, [name |-> name, server |-> server])

RECURSIVE RegisterAll(_, _, _)
RegisterAll(registry, tools, server) ==
    IF tools = <<>> THEN registry
    ELSE RegisterAll(RegistrySet(registry, Head(tools), server), Tail(tools), server)

\* the body of `for (const [name, sconf] of servers)`
RECURSIVE SetupLoop(_, _, _, _)
SetupLoop(servers, agentScope, w, acc) ==
    IF servers = <<>> THEN acc
    ELSE
      LET sconf == Head(servers)
          name  == sconf.name
          rest  == Tail(servers)
      IN  IF ~sconf.transport THEN SetupLoop(rest, agentScope, w, acc)
          ELSE IF ~w[name].connects THEN SetupLoop(rest, agentScope, w, acc)
          ELSE
            LET acc1 == [acc EXCEPT !.connected = Append(@, name)]
            IN  IF ~w[name].lists THEN SetupLoop(rest, agentScope, w, acc1)
                ELSE
                  LET policy   == AgentPolicy(agentScope, name)
                      filtered == SelectSeq(w[name].tools,
                                    LAMBDA t : ToolVisible(t, sconf, policy))
                  IN  SetupLoop(rest, agentScope, w,
                        [acc1 EXCEPT !.registry = RegisterAll(@, filtered, name)])

\* A mutation of setupTools: without an agent scope every enabled server is
\* connected and filtered by the global policy alone.
SetupToolsNoDefaultDeny(a, o, agentScope, w) ==
    IF o.noTools THEN EmptySetup
    ELSE
      LET servers == SelectSeq(a.mcpServers,
                       LAMBDA s : IF agentScope.has THEN ServerEligible(s, agentScope)
                                  ELSE s.enabled)
          out     == SetupLoop(servers, agentScope, w, EmptySetup)
      IN  [out EXCEPT !.openAITools =
              [i \in 1..Len(out.registry) |-> out.registry[i].name]]

\* A mutation of setupTools: the noTools guard is gone.
SetupToolsIgnoresNoTools(a, o, agentScope, w) ==
    IF ~agentScope.has THEN EmptySetup
    ELSE
      LET servers == SelectSeq(a.mcpServers, LAMBDA s : ServerEligible(s, agentScope))
          out     == SetupLoop(servers, agentScope, w, EmptySetup)
      IN  [out EXCEPT !.openAITools =
              [i \in 1..Len(out.registry) |-> out.registry[i].name]]

SetupTools(a, o, agentScope, w) ==
    IF o.noTools THEN EmptySetup
    ELSE IF ~agentScope.has THEN EmptySetup
    ELSE
      LET servers == SelectSeq(a.mcpServers, LAMBDA s : ServerEligible(s, agentScope))
          out     == SetupLoop(servers, agentScope, w, EmptySetup)
      IN  [out EXCEPT !.openAITools =
              [i \in 1..Len(out.registry) |-> out.registry[i].name]]

(***************************************************************************)
(* chatWithOpenAI (llm-core.ts): the scope of one invocation               *)
(***************************************************************************)
\* loadAgents(app).agents: the merged catalog, name -> AgentConfig
NoFiles == [n \in {} |-> NoAgent]

\* {...base, ...over}: the keys of both, over's value where both have one
Spread(base, over) ==
    [n \in DOMAIN base \cup DOMAIN over |->
        IF n \in DOMAIN over THEN over[n] ELSE base[n]]

\* for (const d of dirs) dirAgents = {...loadAgentsFromDir(d), ...dirAgents}
RECURSIVE DirAgents(_, _)
DirAgents(dirs, dirAgents) ==
    IF dirs = <<>> THEN dirAgents
    ELSE DirAgents(Tail(dirs), Spread(Head(dirs), dirAgents))

\* A mutation of the merge: an inline definition is kept over a file's.
LoadAgentsInlineFirst(a) == Spread(DirAgents(a.agentDirs, NoFiles), a.agents)

\* merged = {...(app.agents ?? {}), ...dirAgents}
LoadAgents(a) == Spread(a.agents, DirAgents(a.agentDirs, NoFiles))

\* currentAgent = currentAgentName ? agents[currentAgentName] : undefined
CurrentAgent(a, o) ==
    IF o.agent # NoName /\ o.agent \in DOMAIN LoadAgents(a)
    THEN [has |-> TRUE, agentName |-> o.agent, agent |-> LoadAgents(a)[o.agent]]
    ELSE NoScope

\* A mutation of visibleAgentNames: the agent's list is taken as it is, the
\* names that are no agents included.
VisibleAgentNamesUnfiltered(a, o) ==
    LET agents == LoadAgents(a)
        cur    == CurrentAgent(a, o)
    IN  IF cur.has /\ cur.agent.hasAllowed /\ cur.agent.allowedAgents # {}
        THEN cur.agent.allowedAgents
        ELSE IF o.agents # {}
             THEN {n \in DOMAIN agents : n \in o.agents}
             ELSE DOMAIN agents

\* visibleAgentNames: the names advertised in the call_agent enum
VisibleAgentNames(a, o) ==
    LET agents == LoadAgents(a)
        cur    == CurrentAgent(a, o)
    IN  IF cur.has /\ cur.agent.hasAllowed /\ cur.agent.allowedAgents # {}
        THEN {n \in cur.agent.allowedAgents : n \in DOMAIN agents}
        ELSE IF o.agents # {}
             THEN {n \in DOMAIN agents : n \in o.agents}
             ELSE DOMAIN agents

\* targetAgentEnumProp: the enum key of target_agent, left out when there is
\* no visible agent
TargetAgentEnumProp(visibleAgentNames) ==
    IF visibleAgentNames # {}
    THEN [has |-> TRUE, enum |-> visibleAgentNames]
    ELSE [has |-> FALSE, enum |-> {}]

NoOutcome == [kind |-> "none", value |-> ""]
NoChild == [scoped |-> FALSE, target |-> NoName]

\* connected: each ConnectedServer with the number of times its close() ran
Handles(names) == [i \in 1..Len(names) |-> [name |-> names[i], closes |-> 0]]

\* The state of an invocation when its conversation is about to start: the
\* scope, the tools, the first messages.  new Intl.DateTimeFormat throws a
\* RangeError for a time zone it does not know, outside the try/finally.
\* `messages` holds the part of the transcript that no request has carried to
\* the model yet: the loop only ever pushes to the transcript and reads none
\* of it back, so what was sent already plays no part in what follows.
NewFrame(o, depth) ==
    LET cur      == CurrentAgent(app, o)
        setup    == SetupTools(app, o, cur, world)
        allTools == IF o.noTools THEN <<>>
                    ELSE Append(setup.openAITools, "call_agent")
    IN  [depth |-> depth,
         opts |-> o,
         agents |-> LoadAgents(app),
         currentAgent |-> cur,
         visibleAgentNames |-> VisibleAgentNames(app, o),
         targetAgentEnumProp |-> TargetAgentEnumProp(VisibleAgentNames(app, o)),
         connected |-> Handles(setup.connected),
         registry |-> setup.registry,
         openAITools |-> setup.openAITools,
         allTools |-> allTools,
         pc |-> IF ~tzValid THEN "exit"
                ELSE IF Len(allTools) = 0 THEN "fast" ELSE "loop",
         step |-> 0,
         calls |-> <<>>,
         idx |-> 0,
         messages |-> <<>>,
         lastAssistantText |-> "",
         finish |-> "",
         modelCalls |-> 0,
         child |-> NoChild,
         outcome |-> IF ~tzValid
                     THEN [kind |-> "throw", value |-> "RangeError"]
                     ELSE NoOutcome]

Top == stack[Len(stack)]
SetTop(f) == [stack EXCEPT ![Len(stack)] = f]
Running == phase = "running" /\ stack # <<>>

\* registry.get(toolName)
RegistryHas(registry, name) == \E i \in 1..Len(registry) : registry[i].name = name
RegistryGet(registry, name) ==
    registry[CHOOSE i \in 1..Len(registry) : registry[i].name = name]

\* A mutation of the loop bound: one turn too many.
LoopContinuesOffByOne(step) == step <= MaxTurns

\* A mutation of the loop bound: no bound.
LoopContinuesForever(step) == TRUE

\* step < 32
LoopContinues(step) == step < MaxTurns

\* A mutation of the finally block: it closes nothing.
CloseAllSkipped(connected) == connected

\* finally { await Promise.allSettled(connected.map((c) => c.close())) }
CloseAll(connected) ==
    [i \in 1..Len(connected) |-> [connected[i] EXCEPT !.closes = @ + 1]]

\* return <value> from inside the try block: the finally block runs
ReturnInTry(f, value) ==
    [f EXCEPT !.pc = "exit",
              !.outcome = [kind |-> "return", value |-> value],
              !.connected = CloseAll(@)]

\* throw from inside the try block: the finally block runs
ThrowInTry(f, value) ==
    [f EXCEPT !.pc = "exit",
              !.outcome = [kind |-> "throw", value |-> value],
              !.connected = CloseAll(@)]

\* return from the fast path, before the try block
ReturnFast(f, value) ==
    [f EXCEPT !.pc = "exit", !.outcome = [kind |-> "return", value |-> value]]

ToolMsg(id, content) == [role |-> "tool", tool_call_id |-> id, content |-> content]

\* A mutation of messages.push: the message goes before the turn's others.
PushFirst(messages, m) == <<Head(messages)>> \o <<m>> \o Tail(messages)

\* messages.push(m)
Push(messages, m) == Append(messages, m)

\* A mutation of `continue`: `break`, the rest of the turn is skipped.
AdvanceBreaks(f) ==
    [f EXCEPT !.idx = 0, !.pc = "loop",
              !.step = IF @ < StepCap THEN @ + 1 ELSE @]

\* `continue`: the next tool call of the turn, or the next turn (step++)
Advance(f) ==
    IF f.idx < Len(f.calls)
    THEN [f EXCEPT !.idx = @ + 1, !.pc = "dispatch"]
    ELSE [f EXCEPT !.idx = 0, !.pc = "loop",
                   !.step = IF @ < StepCap THEN @ + 1 ELSE @]

\* A mutation of the dispatcher: the call's tool message is never pushed.
AnswerSilent(f, content) == Advance(f)

\* A mutation of the dispatcher: the tool message is pushed and returned
\* as the result of the invocation, `return` for `continue`.
AnswerReturns(f, content) ==
    ReturnInTry([f EXCEPT !.messages = Push(@, ToolMsg(f.calls[f.idx].id, content))],
                content[1])

\* the tool message of the call being dispatched, then `continue`
Answer(f, content) ==
    Advance([f EXCEPT !.messages = Push(@, ToolMsg(f.calls[f.idx].id, content))])

(***************************************************************************)
(* The answers of the language model                                       *)
(***************************************************************************)
\* tc.function.arguments of an MCP call, as the model wrote it: nothing, an
\* object, the JSON null, text that is no JSON
RawArguments == {"", "{\"k\": 1}", "null", "k=1"}

McpCallWith(n, raw) == [name |-> n, query |-> "", target |-> NoName, arguments |-> raw]
McpCall(n) == McpCallWith(n, "")
AgentCall(q, t) == [name |-> "call_agent", query |-> q, target |-> t, arguments |-> ""]

McpCalls == {McpCall(n) : n \in {NoName} \cup ToolNames}
AgentCalls == {AgentCall("q", t) : t \in {NoName, "ghost"} \cup AgentNames}
                \cup {AgentCall("", NoName)}

\* all sequences over S of length 1..n
RECURSIVE SeqsUpTo(_, _)
SeqsUpTo(S, n) ==
    IF n = 0 THEN {}
    ELSE {<<c>> : c \in S}
           \cup {Append(l, c) : l \in SeqsUpTo(S, n - 1), c \in S}

WideAgentCalls == {AgentCall("q", "b"), AgentCall("q", "ghost"), AgentCall("", NoName)}

\* The tool-call lists the model may answer with in frame f.  "wide" runs
\* answer the top-level invocation with up to MaxCalls calls, for WideTurns
\* turns, and its children with one MCP call in their first turn; "deep"
\* runs delegate in the first turn of every invocation, one call a turn;
\* "long" runs ask for one MCP call a turn, with any of the raw argument
\* texts, for as many turns as the loop allows.
CallLists(f) ==
    IF script = "wide"
    THEN IF f.depth = 0
         THEN IF f.step >= WideTurns THEN {}
              ELSE SeqsUpTo(McpCalls \cup WideAgentCalls, MaxCalls)
         ELSE IF f.step > 0 THEN {} ELSE SeqsUpTo(McpCalls, 1)
    ELSE IF script = "deep"
    THEN IF f.step > 0 THEN {} ELSE SeqsUpTo(AgentCalls, 1)
    ELSE SeqsUpTo({McpCall(NoName)} \cup {McpCallWith("x", raw) : raw \in RawArguments}, 1)

\* the assistant texts: "long" runs tell an earlier text from a later one
Texts ==
    IF script = "deep" THEN {"t"}
    ELSE IF script = "long" THEN {"", "t", "u"}
    ELSE {"", "t"}

\* tc.id: the identifier the model gives the n-th call of its answer
WithIds(list, step) ==
    [n \in 1..Len(list) |->
        [id |-> <<step, n>>, name |-> list[n].name,
         query |-> list[n].query, target |-> list[n].target,
         arguments |-> list[n].arguments]]

(***************************************************************************)
(* call_agent: the checks of a delegation request                          *)
(***************************************************************************)
\* A mutation of the depth guard: off by one.
DepthExceededOffByOne(depth) == depth > MaxDepth

\* if (depth >= 5)
DepthExceeded(depth) == depth >= MaxDepth

\* targetAgent ?? currentAgentName
TargetName(f, tc) == IF tc.target # NoName THEN tc.target ELSE f.opts.agent

\* A mutation of the allowlist check: the CLI allowlist, when given, decides.
AllowlistCliFirst(f, targetName) ==
    IF f.opts.agents # {}
    THEN IF targetName \notin f.opts.agents THEN "cli" ELSE "ok"
    ELSE IF f.currentAgent.has /\ f.currentAgent.agent.hasAllowed
         THEN IF targetName \notin f.currentAgent.agent.allowedAgents
              THEN "agent" ELSE "ok"
         ELSE "ok"

\* A mutation of the allowlist check: the CLI allowlist is never consulted.
AllowlistWithoutCli(f, targetName) ==
    IF f.currentAgent.has /\ f.currentAgent.agent.hasAllowed
    THEN IF targetName \notin f.currentAgent.agent.allowedAgents
         THEN "agent" ELSE "ok"
    ELSE "ok"

\* the active agent's allowedAgents, else the CLI allowlist
Allowlist(f, targetName) ==
    IF f.currentAgent.has /\ f.currentAgent.agent.hasAllowed
    THEN IF targetName \notin f.currentAgent.agent.allowedAgents
         THEN "agent" ELSE "ok"
    ELSE IF f.opts.agents # {}
         THEN IF targetName \notin f.opts.agents THEN "cli" ELSE "ok"
         ELSE "ok"

\* A mutation of the call_agent branch: the depth guard comes last, after
\* the query, catalog and allowlist checks.
DelegationDepthLast(f, tc) ==
    LET targetName == TargetName(f, tc)
    IN  IF tc.query = ""
        THEN [run |-> FALSE,
              content |-> <<"call_agent requires a non-empty \"query\" string">>]
        ELSE IF targetName # NoName /\ targetName \notin DOMAIN LoadAgents(app)
        THEN [run |-> FALSE,
              content |-> <<"call_agent failed: unknown agent", targetName>>]
        ELSE IF targetName # NoName /\ Allowlist(f, targetName) = "agent"
        THEN [run |-> FALSE,
              content |-> <<"call_agent refused: agent is not allowed to call",
                            f.opts.agent, targetName>>]
        ELSE IF targetName # NoName /\ Allowlist(f, targetName) = "cli"
        THEN [run |-> FALSE,
              content |-> <<"call_agent refused: target agent not in CLI allowlist (--agents)",
                            targetName>>]
        ELSE IF DepthExceeded(f.depth)
        THEN [run |-> FALSE,
              content |-> <<"call_agent refused: maximum recursion depth reached">>]
        ELSE IF targetName = NoName
        THEN [run |-> TRUE, scoped |-> FALSE, target |-> NoName, opts |-> f.opts]
        ELSE [run |-> TRUE, scoped |-> TRUE, target |-> targetName,
              opts |-> [f.opts EXCEPT !.agent = targetName]]

\* What the call_agent branch does with tool call tc in frame f: the content
\* of the refusal it pushes, or the child invocation it starts.
Delegation(f, tc) ==
    LET targetName == TargetName(f, tc)
    IN  IF DepthExceeded(f.depth)
        THEN [run |-> FALSE,
              content |-> <<"call_agent refused: maximum recursion depth reached">>]
        ELSE IF tc.query = ""
        THEN [run |-> FALSE,
              content |-> <<"call_agent requires a non-empty \"query\" string">>]
        ELSE IF targetName = NoName
        THEN [run |-> TRUE, scoped |-> FALSE, target |-> NoName, opts |-> f.opts]
        ELSE IF targetName \notin DOMAIN LoadAgents(app)
        THEN [run |-> FALSE,
              content |-> <<"call_agent failed: unknown agent", targetName>>]
        ELSE IF Allowlist(f, targetName) = "agent"
        THEN [run |-> FALSE,
              content |-> <<"call_agent refused: agent is not allowed to call",
                            f.opts.agent, targetName>>]
        ELSE IF Allowlist(f, targetName) = "cli"
        THEN [run |-> FALSE,
              content |-> <<"call_agent refused: target agent not in CLI allowlist (--agents)",
                            targetName>>]
        ELSE [run |-> TRUE, scoped |-> TRUE, target |-> targetName,
              opts |-> [f.opts EXCEPT !.agent = targetName]]

(***************************************************************************)
(* chatWithOpenAI: the conversation loop                                   *)
(***************************************************************************)
\* the values of the arguments of a tool call: what JSON.parse gives, or
\* the raw text
JsonObject(text) == [type |-> "object", text |-> text]
JsonNull == [type |-> "null", text |-> ""]
RawText(text) == [type |-> "string", text |-> text]
EmptyObject == JsonObject("")

\* JSON.parse(input); a SyntaxError for text that is no JSON
JsonParse(input) ==
    IF input = "{\"k\": 1}" THEN [ok |-> TRUE, value |-> JsonObject("k: 1")]
    ELSE IF input = "null" THEN [ok |-> TRUE, value |-> JsonNull]
    ELSE [ok |-> FALSE, value |-> JsonNull]

\* A mutation of safeParseJSON: text that is no JSON parses to nothing.
SafeParseJSONDropsRaw(input) ==
    IF input = "" THEN EmptyObject
    ELSE IF JsonParse(input).ok THEN JsonParse(input).value
    ELSE EmptyObject

\* try { return input ? JSON.parse(input) : {} } catch { return input }
SafeParseJSON(input) ==
    IF input = "" THEN EmptyObject
    ELSE IF JsonParse(input).ok THEN JsonParse(input).value
    ELSE RawText(input)

\* callTool({name, arguments: args ?? {}})
CallArguments(rawArgs) ==
    LET args == SafeParseJSON(rawArgs)
    IN  IF args = JsonNull THEN EmptyObject ELSE args

Op(kind, f, name, server) ==
    [kind |-> kind, depth |-> f.depth, name |-> name, server |-> server,
     arguments |-> EmptyObject]

AssistantMsg(text) == [role |-> "assistant", tool_call_id |-> <<>>, content |-> <<text>>]

\* the top-level call: chatWithOpenAI(app, queryText, flags)
Start ==
    /\ phase = "init"
    /\ stack' = <<NewFrame(opts, 0)>>
    /\ phase' = "running"
    /\ UNCHANGED <<app, world, opts, tzValid, script, result, inflight>>

\* client.chat.completions.create(payload) at the head of a turn
CallModel ==
    /\ Running
    /\ Top.pc = "loop"
    /\ LoopContinues(Top.step)
    /\ inflight' = inflight \cup {Op("model", Top, "", "")}
    /\ stack' = SetTop([Top EXCEPT !.pc = "await_model",
                           !.messages = <<>>, !.calls = <<>>,
                           !.modelCalls = IF @ < StepCap THEN @ + 1 ELSE @])
    /\ UNCHANGED <<app, world, opts, tzValid, script, phase, result>>

\* the fast path's only request, when there are no tools at all
CallModelSingle ==
    /\ Running
    /\ Top.pc = "fast"
    /\ inflight' = inflight \cup {Op("model", Top, "", "")}
    /\ stack' = SetTop([Top EXCEPT !.pc = "await_single", !.modelCalls = @ + 1])
    /\ UNCHANGED <<app, world, opts, tzValid, script, phase, result>>

\* A mutation of the return after the loop: the marker, whatever was said.
BudgetResultMarkerOnly(lastAssistantText) == "finished"

\* return lastAssistantText || "finished"
BudgetResult(lastAssistantText) ==
    IF lastAssistantText # "" THEN lastAssistantText ELSE "finished"

\* A mutation of the final return: the marker stands in for an empty text.
FinalResultOrMarker(assistantText, lastAssistantText) ==
    IF assistantText # "" THEN assistantText ELSE "finished"

\* return assistantText || lastAssistantText || ""
FinalResult(assistantText, lastAssistantText) ==
    IF assistantText # "" THEN assistantText ELSE lastAssistantText

\* the for loop ends after the last turn: return lastAssistantText || "finished"
LoopExit ==
    /\ Running
    /\ Top.pc = "loop"
    /\ ~LoopContinues(Top.step)
    /\ stack' = SetTop(ReturnInTry(Top, BudgetResult(Top.lastAssistantText)))
    /\ UNCHANGED <<app, world, opts, tzValid, script, phase, result, inflight>>

\* the request throws: return emsg
ModelFails ==
    /\ Running
    /\ Top.pc \in {"await_model", "await_single"}
    /\ inflight' = inflight \ {Op("model", Top, "", "")}
    /\ stack' = SetTop(IF Top.pc = "await_model" THEN ReturnInTry(Top, "emsg")
                       ELSE ReturnFast(Top, "emsg"))
    /\ UNCHANGED <<app, world, opts, tzValid, script, phase, result>>

\* the response carries no message: return "No message from model"
ModelNoMessage ==
    /\ Running
    /\ Top.pc = "await_model"
    /\ inflight' = inflight \ {Op("model", Top, "", "")}
    /\ stack' = SetTop(ReturnInTry(Top, "No message from model"))
    /\ UNCHANGED <<app, world, opts, tzValid, script, phase, result>>

\* the fast path returns the assistant text ("" when there is no message);
\* whatever tool calls the response carries are not looked at
SingleReplies ==
    /\ Running
    /\ Top.pc = "await_single"
    /\ inflight' = inflight \ {Op("model", Top, "", "")}
    /\ \E text \in Texts, list \in CallLists(Top) \cup {<<>>} :
          stack' = SetTop(ReturnFast(Top, text))
    /\ UNCHANGED <<app, world, opts, tzValid, script, phase, result>>

\* A mutation of the final-turn test: only a response without tool calls is
\* final.
IsFinalTurnWithoutCallsOnly(toolCalls, finish) == Len(toolCalls) = 0

\* !toolCalls.length || finish === "stop"
IsFinalTurn(toolCalls, finish) == Len(toolCalls) = 0 \/ finish = "stop"

\* a response with a message: the assistant message is pushed; a final turn
\* returns, any other turn starts dispatching its tool calls
ModelReplies ==
    /\ Running
    /\ Top.pc = "await_model"
    /\ inflight' = inflight \ {Op("model", Top, "", "")}
    /\ \E text \in Texts, list \in CallLists(Top) \cup {<<>>},
          finish \in {"stop", "tool_calls"} :
          /\ list = <<>> => finish = "stop"
          /\ LET f1 == [Top EXCEPT
                          !.lastAssistantText = IF text # "" THEN text ELSE @,
                          !.messages = <<AssistantMsg(text)>>,
                          !.finish = finish,
                          !.calls = WithIds(list, Top.step)]
                 isFinalTurn == IsFinalTurn(list, finish)
             IN  stack' = SetTop(
                   IF isFinalTurn
                   THEN ReturnInTry(f1, FinalResult(text, f1.lastAssistantText))
                   ELSE [f1 EXCEPT !.idx = 1, !.pc = "dispatch"])
    /\ UNCHANGED <<app, world, opts, tzValid, script, phase, result>>

Dispatching == Running /\ Top.pc = "dispatch"

\* A mutation of the dispatcher: a registered tool of that name comes first.
IsDelegationUnlessRegistered(f, tc) ==
    tc.name = "call_agent" /\ ~RegistryHas(f.registry, tc.name)

\* if (toolName === "call_agent"), before the registry is looked at
IsDelegation(f, tc) == tc.name = "call_agent"
Tc == Top.calls[Top.idx]

\* if (!toolName): "Tool call missing function name"
MissingName ==
    /\ Dispatching
    /\ Tc.name = NoName
    /\ stack' = SetTop(Answer(Top, <<"Tool call missing function name">>))
    /\ UNCHANGED <<app, world, opts, tzValid, script, phase, result, inflight>>

\* call_agent: a request that one of the checks rejects
DelegationRefused ==
    /\ Dispatching
    /\ IsDelegation(Top, Tc)
    /\ ~Delegation(Top, Tc).run
    /\ stack' = SetTop(Answer(Top, Delegation(Top, Tc).content))
    /\ UNCHANGED <<app, world, opts, tzValid, script, phase, result, inflight>>

\* call_agent: await chatWithOpenAI(app, subQuery, nextOpts, depth + 1)
DelegationStarts ==
    /\ Dispatching
    /\ IsDelegation(Top, Tc)
    /\ Delegation(Top, Tc).run
    /\ LET d == Delegation(Top, Tc)
       IN  stack' = Append(
             SetTop([Top EXCEPT !.pc = "await_child",
                                !.child = [scoped |-> d.scoped, target |-> d.target]]),
             NewFrame(d.opts, Top.depth + 1))
    /\ UNCHANGED <<app, world, opts, tzValid, script, phase, result, inflight>>

\* registry.get(toolName) is undefined: "Unknown tool: <name>"
UnknownTool ==
    /\ Dispatching
    /\ Tc.name # NoName /\ ~IsDelegation(Top, Tc)
    /\ ~RegistryHas(Top.registry, Tc.name)
    /\ stack' = SetTop(Answer(Top, <<"Unknown tool:", Tc.name>>))
    /\ UNCHANGED <<app, world, opts, tzValid, script, phase, result, inflight>>

\* A mutation of the confirmation test: the prompt is never shown.
NeedsConfirmationNever(f, name) == FALSE

\* requiresConfirmation.has(toolName) && !opts.noConfirmations
NeedsConfirmation(f, name) ==
    name \in app.tools_requires_confirmation /\ ~f.opts.noConfirmations

\* await prompts({type: "confirm", ...})
AskConfirmation ==
    /\ Dispatching
    /\ Tc.name # NoName /\ ~IsDelegation(Top, Tc)
    /\ RegistryHas(Top.registry, Tc.name)
    /\ NeedsConfirmation(Top, Tc.name)
    /\ inflight' = inflight \cup {Op("confirm", Top, Tc.name, "")}
    /\ stack' = SetTop([Top EXCEPT !.pc = "await_confirm"])
    /\ UNCHANGED <<app, world, opts, tzValid, script, phase, result>>

ToolOp(f, name) ==
    [Op("tool", f, name, RegistryGet(f.registry, name).server)
        EXCEPT !.arguments = CallArguments(f.calls[f.idx].arguments)]

\* the prompt is answered yes: entry.server.client.callTool(...)
ConfirmYes ==
    /\ Running
    /\ Top.pc = "await_confirm"
    /\ inflight' = (inflight \ {Op("confirm", Top, Tc.name, "")})
                     \cup {ToolOp(Top, Tc.name)}
    /\ stack' = SetTop([Top EXCEPT !.pc = "await_tool"])
    /\ UNCHANGED <<app, world, opts, tzValid, script, phase, result>>

\* the prompt is answered no: "User declined to run tool <name>"
ConfirmNo ==
    /\ Running
    /\ Top.pc = "await_confirm"
    /\ inflight' = inflight \ {Op("confirm", Top, Tc.name, "")}
    /\ stack' = SetTop(Answer(Top, <<"User declined to run tool", Tc.name>>))
    /\ UNCHANGED <<app, world, opts, tzValid, script, phase, result>>

\* the prompt rejects: nothing in the loop catches it
ConfirmThrows ==
    /\ Running
    /\ Top.pc = "await_confirm"
    /\ inflight' = inflight \ {Op("confirm", Top, Tc.name, "")}
    /\ stack' = SetTop(ThrowInTry(Top, "prompt"))
    /\ UNCHANGED <<app, world, opts, tzValid, script, phase, result>>

\* a registered tool that needs no confirmation: callTool(...)
InvokeTool ==
    /\ Dispatching
    /\ Tc.name # NoName /\ ~IsDelegation(Top, Tc)
    /\ RegistryHas(Top.registry, Tc.name)
    /\ ~NeedsConfirmation(Top, Tc.name)
    /\ inflight' = inflight \cup {ToolOp(Top, Tc.name)}
    /\ stack' = SetTop([Top EXCEPT !.pc = "await_tool"])
    /\ UNCHANGED <<app, world, opts, tzValid, script, phase, result>>

\* callTool resolves: the rendered result is the tool message
ToolReturns ==
    /\ Running
    /\ Top.pc = "await_tool"
    /\ inflight' = inflight \ {ToolOp(Top, Tc.name)}
    /\ \E rendered \in {"", "r"} : stack' = SetTop(Answer(Top, <<rendered>>))
    /\ UNCHANGED <<app, world, opts, tzValid, script, phase, result>>

\* A mutation of the catch around callTool: the failure goes on as a throw.
CatchToolFailureRethrows(f, name) == ThrowInTry(f, "msg")

\* catch (e) { messages.push("Tool <name> failed: <message>") }
CatchToolFailure(f, name) == Answer(f, <<"Tool failed:", name, "msg">>)

\* callTool rejects: "Tool <name> failed: <message>"
ToolFails ==
    /\ Running
    /\ Top.pc = "await_tool"
    /\ inflight' = inflight \ {ToolOp(Top, Tc.name)}
    /\ stack' = SetTop(CatchToolFailure(Top, Tc.name))
    /\ UNCHANGED <<app, world, opts, tzValid, script, phase, result>>

\* A mutation of the result message: the unscoped branch words it as the
\* scoped one does.
ChildResultAlwaysScoped(parent, outcome) ==
    IF outcome.kind = "return"
    THEN <<"call_agent completed:", parent.child.target, outcome.value>>
    ELSE <<"call_agent failed", parent.child.target, outcome.value>>

\* what the parent pushes when the awaited child invocation settles
ChildResult(parent, outcome) ==
    IF outcome.kind = "return"
    THEN IF parent.child.scoped
         THEN <<"call_agent completed:", parent.child.target, outcome.value>>
         ELSE <<"call_agent completed (unscoped), result:", outcome.value>>
    ELSE IF parent.child.scoped
         THEN <<"call_agent failed", parent.child.target, outcome.value>>
         ELSE <<"call_agent failed (unscoped):", outcome.value>>

\* A mutation of the try/catch around the nested call: what the child throws
\* goes on through the parent.
SettleChildRethrows(parent, outcome) ==
    IF outcome.kind = "throw"
    THEN ThrowInTry([parent EXCEPT !.child = NoChild], outcome.value)
    ELSE Answer([parent EXCEPT !.child = NoChild], ChildResult(parent, outcome))

\* A mutation of the nested call: the options bag is shared, the parent is
\* left with the agent the child ran as.
SettleChildSharesOptions(parent, outcome) ==
    Answer([parent EXCEPT !.child = NoChild,
                          !.opts.agent = IF parent.child.scoped
                                         THEN parent.child.target ELSE @],
           ChildResult(parent, outcome))

\* try { result = await chatWithOpenAI(...); push } catch { push }; continue
SettleChild(parent, outcome) ==
    Answer([parent EXCEPT !.child = NoChild], ChildResult(parent, outcome))

\* a nested invocation returns or throws into the parent's try/catch
ChildExits ==
    /\ Running
    /\ Top.pc = "exit"
    /\ Len(stack) > 1
    /\ LET parent == stack[Len(stack) - 1]
       IN  stack' = Append(SubSeq(stack, 1, Len(stack) - 2),
                      SettleChild(parent, Top.outcome))
    /\ UNCHANGED <<app, world, opts, tzValid, script, phase, result, inflight>>

\* the top-level invocation returns or throws to the CLI
TopExits ==
    /\ Running
    /\ Top.pc = "exit"
    /\ Len(stack) = 1
    /\ stack' = <<>>
    /\ result' = Top.outcome
    /\ phase' = "done"
    /\ UNCHANGED <<app, world, opts, tzValid, script, inflight>>

Next ==
    \/ Start
    \/ CallModel
    \/ CallModelSingle
    \/ LoopExit
    \/ ModelFails
    \/ ModelNoMessage
    \/ SingleReplies
    \/ ModelReplies
    \/ MissingName
    \/ DelegationRefused
    \/ DelegationStarts
    \/ UnknownTool
    \/ AskConfirmation
    \/ ConfirmYes
    \/ ConfirmNo
    \/ ConfirmThrows
    \/ InvokeTool
    \/ ToolReturns
    \/ ToolFails
    \/ ChildExits
    \/ TopExits

(***************************************************************************)
(* Configurations                                                          *)
(***************************************************************************)
Server(name, enabled, include, exclude, confirm) ==
    [name |-> name, enabled |-> enabled, transport |-> TRUE,
     include_tools |-> include, exclude_tools |-> exclude,
     requires_confirmation |-> confirm]

\* A mutation of loadConfig: the lists of disabled servers are left out.
ToolsRequiresConfirmationEnabledOnly(servers) ==
    UNION {IF servers[i].enabled THEN servers[i].requires_confirmation ELSE {} :
             i \in 1..Len(servers)}

\* loadConfig: the requires_confirmation lists of all servers, flattened
ToolsRequiresConfirmation(servers) ==
    UNION {servers[i].requires_confirmation : i \in 1..Len(servers)}

Policy(include, exclude) == [include_tools |-> include, exclude_tools |-> exclude]

\* s1 advertises x, y, z, hides z and gates y; s2 advertises x as well.
\* a sees x of s1 and may call b (and a name that is no agent); b sees both
\* servers and declares no allowedAgents; c has no servers and an empty list.
DefaultServers ==
    <<Server("s1", TRUE, {}, {"z"}, {"y"}), Server("s2", TRUE, {}, {}, {})>>

DefaultAgents ==
    [n \in AgentNames |->
       IF n = "a"
       THEN [hasServers |-> TRUE,
             servers |-> [s \in {"s1"} |-> Policy({"x"}, {})],
             hasAllowed |-> TRUE, allowedAgents |-> {"b", "ghost"}]
       ELSE IF n = "b"
       THEN [hasServers |-> TRUE,
             servers |-> [s \in {"s1", "s2"} |-> Policy({}, {})],
             hasAllowed |-> FALSE, allowedAgents |-> {}]
       ELSE [hasServers |-> FALSE, servers |-> <<>>,
             hasAllowed |-> TRUE, allowedAgents |-> {}]]

DefaultApp ==
    [mcpServers |-> DefaultServers,
     agents |-> DefaultAgents,
     agentDirs |-> <<NoFiles, NoFiles>>,
     tools_requires_confirmation |-> ToolsRequiresConfirmation(DefaultServers)]

DefaultWorld ==
    [s \in {"s1", "s2"} |->
       [connects |-> TRUE, lists |-> TRUE,
        tools |-> IF s = "s1" THEN <<"x", "y", "z">> ELSE <<"x">>]]

\* --agent, --agents, --no-tools, --no-confirmations
OptionSets ==
    [agent : {NoName, "ghost"} \cup AgentNames,
     agents : {{}, {"c"}, {"a", "b"}},
     noTools : BOOLEAN,
     noConfirmations : BOOLEAN]

\* The runs explored: an option that cannot change a run of the script is
\* left at its default (only agent b has a tool that asks for confirmation
\* and only "wide" runs call it, "long" runs delegate nothing, the fast path
\* and the failing date banner ignore the script).
Runs ==
    {r \in [opts : OptionSets, tzValid : BOOLEAN, script : {"wide", "deep", "long"}] :
        /\ r.opts.noConfirmations => r.script = "wide" /\ r.opts.agent = "b"
        /\ r.script = "long" => r.opts.agents = {}
        /\ (r.opts.noTools \/ ~r.tzValid) =>
              r.script = "wide" /\ ~r.opts.noConfirmations /\ r.opts.agents = {}}

Init ==
    /\ app = DefaultApp
    /\ world = DefaultWorld
    /\ \E r \in Runs : opts = r.opts /\ tzValid = r.tzValid /\ script = r.script
    /\ phase = "init"
    /\ stack = <<>>
    /\ result = NoOutcome
    /\ inflight = {}

Spec == Init /\ [][Next]_vars

(***************************************************************************)
(* The agents directories are files outside the program: loadAgents reads  *)
(* them anew at every call, so what it returns follows whatever is on disk *)
(* at that moment.  AgentFilesChange is another process writing the file   *)
(* ./agents/b.jsonc, once, while the call tree runs: a definition of b     *)
(* that declares an empty allowedAgents, or one that declares nothing.     *)
(***************************************************************************)
ChangedAgents ==
    {[n \in {"b"} |-> [DefaultAgents["b"] EXCEPT !.hasAllowed = TRUE]],
     [n \in {"b"} |-> NoAgent],
     [n \in {"ghost"} |-> NoAgent]}

AgentFilesChange ==
    /\ phase = "running"
    /\ app.agentDirs = <<NoFiles, NoFiles>>
    /\ \E files \in ChangedAgents : app' = [app EXCEPT !.agentDirs = <<files, NoFiles>>]
    /\ UNCHANGED <<world, opts, tzValid, script, phase, stack, result, inflight>>

NextReload == Next \/ AgentFilesChange

SpecReload == Init /\ [][NextReload]_vars

(***************************************************************************)
(* Tool setup over drawn configurations: one agent "a" whose servers map   *)
(* and policy for s1 are drawn, server s1 with a drawn global policy and   *)
(* drawn connect and listTools outcomes, server s2 enabled, disabled or    *)
(* without a transport.  The run is the start of the top-level call.       *)
(***************************************************************************)
ToolsServers ==
    {<<Server("s1", e1, gi, ge, {}),
       [Server("s2", e2, {}, {}, {}) EXCEPT !.transport = t2]>> :
        e1 \in BOOLEAN, gi \in SUBSET PolicyNames, ge \in SUBSET PolicyNames,
        e2 \in BOOLEAN, t2 \in BOOLEAN}

ToolsAgents ==
    {[n \in {"a"} |-> [hasServers |-> FALSE, servers |-> <<>>,
                       hasAllowed |-> FALSE, allowedAgents |-> {}]]}
    \cup
    {[n \in {"a"} |->
        [hasServers |-> TRUE,
         servers |-> [s \in D |-> IF s = "s1" THEN Policy(ai, ae) ELSE NoPolicy],
         hasAllowed |-> FALSE, allowedAgents |-> {}]] :
        D \in SUBSET {"s1", "s2"}, ai \in SUBSET PolicyNames, ae \in SUBSET PolicyNames}

ToolsWorlds ==
    {[s \in {"s1", "s2"} |->
        IF s = "s1" THEN [connects |-> c, lists |-> l, tools |-> <<"x", "y", "z">>]
        ELSE [connects |-> TRUE, lists |-> TRUE, tools |-> <<"x">>]] :
        c \in BOOLEAN, l \in BOOLEAN}

InitTools ==
    /\ \E servers \in ToolsServers, agents \in ToolsAgents :
          /\ servers[2].enabled \/ servers[2].transport
          /\ app = [mcpServers |-> servers, agents |-> agents,
                    agentDirs |-> <<NoFiles, NoFiles>>,
                    tools_requires_confirmation |-> ToolsRequiresConfirmation(servers)]
    /\ world \in ToolsWorlds
    /\ world["s1"].lists => world["s1"].connects
    /\ \E agent \in {NoName, "a", "ghost"}, noTools \in BOOLEAN :
          opts = [agent |-> agent, agents |-> {}, noTools |-> noTools,
                  noConfirmations |-> FALSE]
    /\ tzValid = TRUE
    /\ script = "wide"
    /\ phase = "init"
    /\ stack = <<>>
    /\ result = NoOutcome
    /\ inflight = {}

SpecTools == InitTools /\ [][Start]_vars

(***************************************************************************)
(* Delegation scope over drawn catalogs: the catalog holds a and b, a    *)
(* alone, or nobody; a's allowedAgents is omitted or any list over a, b    *)
(* and a name that is no agent; --agent and --agents are drawn likewise.   *)
(* The run is the start of the top-level call.                             *)
(***************************************************************************)
ScopeNames == {"a", "b", "ghost"}

ScopeAgents ==
    {[n \in D |->
        IF n = "a"
        THEN [hasServers |-> FALSE, servers |-> <<>>,
              hasAllowed |-> h, allowedAgents |-> IF h THEN l ELSE {}]
        ELSE NoAgent] :
        D \in {{}, {"a"}, {"a", "b"}}, h \in BOOLEAN, l \in SUBSET ScopeNames}

InitScope ==
    /\ \E agents \in ScopeAgents :
          app = [mcpServers |-> DefaultServers, agents |-> agents,
                 agentDirs |-> <<NoFiles, NoFiles>>,
                 tools_requires_confirmation |-> ToolsRequiresConfirmation(DefaultServers)]
    /\ world = DefaultWorld
    /\ \E agent \in {NoName} \cup ScopeNames, cli \in SUBSET ScopeNames :
          opts = [agent |-> agent, agents |-> cli, noTools |-> FALSE,
                  noConfirmations |-> FALSE]
    /\ tzValid = TRUE
    /\ script = "wide"
    /\ phase = "init"
    /\ stack = <<>>
    /\ result = NoOutcome
    /\ inflight = {}

SpecScope == InitScope /\ [][Start]_vars

(***************************************************************************)
(* The agent catalog over drawn sources: the inline config, ./agents and   *)
(* ~/.llm/agents each define a, b, both or neither; a definition lists the *)
(* one callee that tells its source: a inline, b in ./agents, c in         *)
(* ~/.llm/agents.  The run is the start of the top-level call.             *)
(***************************************************************************)
SourceAgents(callee) ==
    {[n \in D |-> [NoAgent EXCEPT !.hasAllowed = TRUE, !.allowedAgents = {callee}]] :
        D \in SUBSET {"a", "b"}}

InitAgents ==
    /\ \E inline \in SourceAgents("a"), cwd \in SourceAgents("b"),
          home \in SourceAgents("c") :
          app = [mcpServers |-> DefaultServers, agents |-> inline,
                 agentDirs |-> <<cwd, home>>,
                 tools_requires_confirmation |-> ToolsRequiresConfirmation(DefaultServers)]
    /\ world = DefaultWorld
    /\ \E agent \in {NoName, "a"} :
          opts = [agent |-> agent, agents |-> {}, noTools |-> FALSE,
                  noConfirmations |-> FALSE]
    /\ tzValid = TRUE
    /\ script = "wide"
    /\ phase = "init"
    /\ stack = <<>>
    /\ result = NoOutcome
    /\ inflight = {}

SpecAgents == InitAgents /\ [][Start]_vars

(***************************************************************************)
(* The conversations of Spec with servers that fail: s1 may refuse the     *)
(* connection, or accept it and fail listTools.                            *)
(***************************************************************************)
ConnWorlds == {w \in ToolsWorlds : w["s1"].lists => w["s1"].connects}

InitConn ==
    /\ app = DefaultApp
    /\ world \in ConnWorlds
    /\ \E r \in Runs : opts = r.opts /\ tzValid = r.tzValid /\ script = r.script
    /\ phase = "init"
    /\ stack = <<>>
    /\ result = NoOutcome
    /\ inflight = {}

SpecConn == InitConn /\ [][Next]_vars

(***************************************************************************)
(* The conversations of Spec with names that meet: both servers expose a   *)
(* tool called call_agent, s1 may be disabled, and the                     *)
(* requires_confirmation lists name tools of the other server.             *)
(***************************************************************************)
NamesServers ==
    {<<Server("s1", e1, {}, {"z"}, c1), Server("s2", TRUE, {}, {}, c2)>> :
        e1 \in BOOLEAN, c1 \in {{"y"}, {"x"}, {"call_agent"}}, c2 \in {{}, {"x"}}}

NamesWorld ==
    [s \in {"s1", "s2"} |->
       [connects |-> TRUE, lists |-> TRUE,
        tools |-> IF s = "s1" THEN <<"x", "y", "z", "call_agent">>
                  ELSE <<"x", "call_agent">>]]

NamesRuns == {r \in Runs : r.script # "deep" /\ r.opts.agents = {}}

InitNames ==
    /\ \E servers \in NamesServers :
          app = [DefaultApp EXCEPT
                    !.mcpServers = servers,
                    !.tools_requires_confirmation = ToolsRequiresConfirmation(servers)]
    /\ world = NamesWorld
    /\ \E r \in NamesRuns : opts = r.opts /\ tzValid = r.tzValid /\ script = r.script
    /\ phase = "init"
    /\ stack = <<>>
    /\ result = NoOutcome
    /\ inflight = {}

SpecNames == InitNames /\ [][Next]_vars

(***************************************************************************)
(* Claims                                                                  *)
(***************************************************************************)
Frames == {stack[i] : i \in 1..Len(stack)}
ServerConf(name) ==
    app.mcpServers[CHOOSE i \in 1..Len(app.mcpServers) : app.mcpServers[i].name = name]

\* C1: default-deny.  An invocation without a resolved active agent (no
\* agent name, or a name that is not in the catalog) gets an empty connection
\* list, an empty registry and an empty tool list from setupTools, whatever
\* the servers' configuration: no server is connected and no name is one
\* the dispatcher would execute.
C1_DefaultDeny ==
    \A f \in Frames :
        (f.opts.agent = NoName \/ f.opts.agent \notin DOMAIN app.agents) =>
            /\ f.connected = <<>>
            /\ f.registry = <<>>
            /\ f.openAITools = <<>>
            /\ \A t \in ToolNames : ~RegistryHas(f.registry, t)

\* C1 witness: an invocation named an agent that is not in the catalog while
\* s1 is enabled, reachable and advertising tools, and tools are not disabled.
C1_Witness ==
    \E f \in Frames :
        /\ f.opts.agent = "ghost"
        /\ ~f.opts.noTools
        /\ ServerConf("s1").enabled /\ ServerConf("s1").exclude_tools = {}
        /\ world["s1"].connects /\ world["s1"].lists
        /\ f.connected = <<>>

\* The servers whose tools setupTools gets to filter for frame f: enabled,
\* with a transport, a key of the agent's servers map, connected and listed.
ListedServers(f) ==
    {n \in {"s1", "s2"} :
        /\ ServerConf(n).enabled /\ ServerConf(n).transport
        /\ f.currentAgent.agent.hasServers
        /\ n \in DOMAIN f.currentAgent.agent.servers
        /\ world[n].connects /\ world[n].lists}

\* the four filters, in the claim's words
C2_Passes(f, n, t) ==
    LET g == ServerConf(n)
        p == f.currentAgent.agent.servers[n]
    IN  /\ t \notin g.exclude_tools
        /\ t \notin p.exclude_tools
        /\ (g.include_tools = {} \/ t \in g.include_tools)
        /\ (p.include_tools = {} \/ t \in p.include_tools)

\* C2: with tools enabled and an active agent, a name is in the registry if
\* and only if some listed server advertises it and it passes the four
\* filters there (not globally excluded, not excluded by the agent, in the
\* global include list unless that is empty, in the agent's include list
\* unless that is empty); the server the entry names is such a server.
C2_VisibleIff ==
    \A f \in Frames :
        (f.currentAgent.has /\ ~f.opts.noTools) =>
            /\ \A t \in ToolNames :
                 RegistryHas(f.registry, t) <=>
                    \E n \in ListedServers(f) :
                        t \in SeqToSet(world[n].tools) /\ C2_Passes(f, n, t)
            /\ \A i \in 1..Len(f.registry) :
                 /\ f.registry[i].server \in ListedServers(f)
                 /\ f.registry[i].name \in SeqToSet(world[f.registry[i].server].tools)
                 /\ C2_Passes(f, f.registry[i].server, f.registry[i].name)

\* C2 witness: the agent includes only x on s1, s1 globally excludes y and
\* advertises x, y, z, s2 is out of scope: the registry holds exactly x.
C2_Witness ==
    \E f \in Frames :
        /\ f.currentAgent.has /\ ~f.opts.noTools
        /\ DOMAIN f.currentAgent.agent.servers = {"s1"}
        /\ f.currentAgent.agent.servers["s1"] = Policy({"x"}, {})
        /\ ServerConf("s1").exclude_tools = {"y"}
        /\ ServerConf("s1").include_tools = {}
        /\ world["s1"].tools = <<"x", "y", "z">>
        /\ f.registry = <<[name |-> "x", server |-> "s1"]>>

(***************************************************************************)
(* The fair specification: the model, the tools, the prompt and the event  *)
(* loop always get to answer, so some enabled step is eventually taken.    *)
(***************************************************************************)
FairSpec == Init /\ [][Next]_vars /\ WF_vars(Next)

InTurn(f) == f.pc \in {"dispatch", "await_confirm", "await_tool", "await_child"}

\* the for loop over the turn's tool calls is past call k of frame f
Processed(f, k) ==
    \/ InTurn(f) /\ k < f.idx
    \/ f.pc = "loop" /\ f.idx = 0 /\ k <= Len(f.calls)
    \/ f.pc = "exit" /\ f.idx > 0 /\ k < f.idx

\* the tool messages of frame f that carry the identifier of its call k
AnswersTo(f, k) ==
    {i \in 1..Len(f.messages) :
        f.messages[i].role = "tool" /\ f.messages[i].tool_call_id = f.calls[k].id}

AnswerTo(f, k) == f.messages[CHOOSE i \in AnswersTo(f, k) : TRUE]

Unregistered(f, tc) ==
    tc.name \notin {NoName, "call_agent"} /\ ~RegistryHas(f.registry, tc.name)

\* C3: a tool outside the registry is never executed: every callTool in
\* flight names a registry entry of its invocation and goes to that entry's
\* server.  A call without a name is answered 'Tool call missing function
\* name', a call naming an unregistered tool 'Unknown tool: <name>', and the
\* loop goes on to the turn's remaining calls and to the next turn.
C3_OnlyRegisteredExecuted ==
    /\ \A op \in inflight :
          op.kind = "tool" =>
             \E f \in Frames :
                /\ f.depth = op.depth
                /\ RegistryHas(f.registry, op.name)
                /\ RegistryGet(f.registry, op.name).server = op.server
                /\ \E i \in 1..Len(f.connected) : f.connected[i].name = op.server
    /\ \A f \in Frames : \A k \in 1..Len(f.calls) :
          (Processed(f, k) /\ (f.calls[k].name = NoName \/ Unregistered(f, f.calls[k]))) =>
             /\ Cardinality(AnswersTo(f, k)) = 1
             /\ f.calls[k].name = NoName =>
                   AnswerTo(f, k).content = <<"Tool call missing function name">>
             /\ Unregistered(f, f.calls[k]) =>
                   AnswerTo(f, k).content = <<"Unknown tool:", f.calls[k].name>>
             /\ k < Len(f.calls) =>
                   \/ f.pc # "loop" /\ f.idx > k
                   \/ f.pc = "loop" /\
                        \A j \in (k + 1)..Len(f.calls) : Cardinality(AnswersTo(f, j)) = 1

\* C3 witness: the model named the hidden tool z and then the registered tool
\* x in one turn; z was answered 'Unknown tool' and x is being executed.
C3_Witness ==
    /\ stack # <<>>
    /\ Top.pc = "await_tool"
    /\ Len(Top.calls) = 2
    /\ Top.calls[1].name = "z" /\ Top.calls[2].name = "x"
    /\ Top.messages[2].content = <<"Unknown tool:", "z">>
    /\ \E op \in inflight : op.kind = "tool" /\ op.name = "x"

\* the effective target of a delegation request, and whether the allowlists
\* admit it: the active agent's list when it declares one, else the CLI's
EffectiveTarget(f, tc) == IF tc.target # NoName THEN tc.target ELSE f.opts.agent
DeclaresList(f) == f.currentAgent.has /\ f.currentAgent.agent.hasAllowed
Admitted(f, t) ==
    IF DeclaresList(f) THEN t \in f.currentAgent.agent.allowedAgents
    ELSE f.opts.agents = {} \/ t \in f.opts.agents
PassesOtherChecks(f, tc) ==
    /\ tc.query # ""
    /\ EffectiveTarget(f, tc) # NoName =>
          /\ EffectiveTarget(f, tc) \in DOMAIN app.agents
          /\ Admitted(f, EffectiveTarget(f, tc))
Ran(m) == m.content[1] \in {"call_agent completed:", "call_agent failed",
                            "call_agent completed (unscoped), result:",
                            "call_agent failed (unscoped):"}
DepthRefusal == <<"call_agent refused: maximum recursion depth reached">>

\* C4: the top-level invocation runs at depth 0 and a child one deeper than
\* its parent; no invocation runs deeper than 5.  Below depth 5 a call_agent
\* request that passes the other checks starts a child; at depth 5 every
\* call_agent request is answered with the depth refusal and starts none.
C4_DepthBounded ==
    /\ \A i \in 1..Len(stack) : stack[i].depth = i - 1 /\ stack[i].depth <= MaxDepth
    /\ \A f \in Frames :
          /\ f.depth = MaxDepth => f.pc # "await_child"
          /\ (f.pc = "await_child" /\ f.depth < MaxDepth) =>
                PassesOtherChecks(f, f.calls[f.idx])
          /\ \A k \in 1..Len(f.calls) :
                (Processed(f, k) /\ f.calls[k].name = "call_agent") =>
                   /\ Cardinality(AnswersTo(f, k)) = 1
                   /\ f.depth = MaxDepth => AnswerTo(f, k).content = DepthRefusal
                   /\ f.depth < MaxDepth =>
                         (PassesOtherChecks(f, f.calls[k]) <=> Ran(AnswerTo(f, k)))

\* C4 witness: a chain nested 5 deep exists and the invocation at depth 5 has
\* had a call_agent request that passes every other check refused.
C4_Witness ==
    /\ Len(stack) = MaxDepth + 1
    /\ Top.depth = MaxDepth
    /\ Top.pc = "loop" /\ Len(Top.calls) = 1
    /\ Top.calls[1].name = "call_agent"
    /\ PassesOtherChecks(Top, Top.calls[1])
    /\ Top.messages[2].content = DepthRefusal

\* C5: a delegation to a named agent that runs was admitted by the active
\* agent's allowedAgents when the agent declares a list, whatever the CLI
\* allowlist says, and by the CLI allowlist (when one is given) only when
\* the agent declares none; the refusals say which list refused.
C5_AllowlistPrecedence ==
    \A f \in Frames :
        /\ (f.pc = "await_child" /\ f.child.scoped) =>
              /\ DeclaresList(f) => f.child.target \in f.currentAgent.agent.allowedAgents
              /\ (~DeclaresList(f) /\ f.opts.agents # {}) => f.child.target \in f.opts.agents
        /\ \A k \in 1..Len(f.calls) :
              (/\ Processed(f, k)
               /\ f.calls[k].name = "call_agent"
               /\ f.calls[k].query # ""
               /\ f.depth < MaxDepth
               /\ EffectiveTarget(f, f.calls[k]) \in DOMAIN app.agents) =>
                 LET t == EffectiveTarget(f, f.calls[k])
                     m == AnswerTo(f, k)
                 IN  /\ Cardinality(AnswersTo(f, k)) = 1
                     /\ DeclaresList(f) =>
                           IF t \in f.currentAgent.agent.allowedAgents
                           THEN Ran(m)
                           ELSE m.content = <<"call_agent refused: agent is not allowed to call",
                                              f.opts.agent, t>>
                     /\ ~DeclaresList(f) =>
                           IF f.opts.agents = {} \/ t \in f.opts.agents
                           THEN Ran(m)
                           ELSE m.content =
                                  <<"call_agent refused: target agent not in CLI allowlist (--agents)", t>>

\* C5 witness: agent a lists b, the CLI allowlist is {c}: the delegation to b
\* is running although b is not in the CLI allowlist.
C5_Witness ==
    \E f \in Frames :
        /\ f.opts.agent = "a" /\ f.opts.agents = {"c"}
        /\ f.pc = "await_child"
        /\ f.child.scoped /\ f.child.target = "b"

\* C5 second case of the example: under the same agent and CLI allowlist the
\* delegation to c was refused by the agent's list.
C5_WitnessRefused ==
    \E f \in Frames :
        /\ f.opts.agent = "a" /\ f.opts.agents = {"c"}
        /\ f.pc = "loop" /\ Len(f.calls) = 1
        /\ f.calls[1].target = "c"
        /\ f.messages[2].content =
              <<"call_agent refused: agent is not allowed to call", "a", "c">>

\* each connection of frame f has had close() called exactly n times
ClosedTimes(f, n) == \A i \in 1..Len(f.connected) : f.connected[i].closes = n

\* C6: an invocation that is returning or throwing has had close() called
\* exactly once on each connection setupTools opened for it, and a running
\* invocation on none of them.
C6_ClosedOnEveryExit ==
    \A f \in Frames :
        /\ f.pc = "exit" => ClosedTimes(f, 1)
        /\ f.pc # "exit" => ClosedTimes(f, 0)

\* What does hold: the same, for the exits from inside the try block (every
\* exit but the date banner's throw, which needs a time zone Intl rejects).
ClosedOnExitFromTry == tzValid => C6_ClosedOnEveryExit

\* C7: an invocation issues at most 32 model requests: step never passes 32,
\* a request is only in flight in a turn below 32, and the requests issued
\* number the turns started.  Every invocation terminates: whenever
\* invocations are on the stack, the stack is eventually empty.
C7_Bounded ==
    \A f \in Frames :
        /\ f.modelCalls <= MaxTurns
        /\ f.step <= MaxTurns
        /\ (f.pc = "await_model" \/ InTurn(f)) =>
              f.step < MaxTurns /\ f.modelCalls = f.step + 1
        /\ f.pc = "loop" => f.modelCalls = f.step
        /\ f.pc \in {"fast", "await_single"} => f.modelCalls <= 1

C7_AtMost32ModelCalls ==
    /\ []C7_Bounded
    /\ (stack # <<>>) ~> (stack = <<>>)

\* C7 witness: an invocation has made its 32nd request, answered all of that
\* turn's calls and left the loop without a 33rd.
C7_Witness ==
    /\ stack # <<>>
    /\ Top.pc = "exit"
    /\ Top.step = MaxTurns
    /\ Top.modelCalls = MaxTurns
    /\ Top.outcome.kind = "return"

\* C8: the call tree of the top-level invocation terminates: the top-level
\* call eventually returns or throws to the CLI, with nothing left running.
C8_TreeTerminates == <>[](phase = "done" /\ stack = <<>> /\ inflight = {})

\* C8 witness: the top-level call is over after a run that used up the whole
\* turn budget without ever getting assistant text.
C8_Witness ==
    /\ phase = "done"
    /\ stack = <<>>
    /\ result = [kind |-> "return", value |-> "finished"]

\* C9: a tool call has at most one tool message and, once the loop is past
\* it, exactly one; every tool message of the turn answers one of the turn's
\* calls; when the loop is back at its head, about to ask the model again,
\* every call of the turn has its message.
C9_EveryCallAnswered ==
    \A f \in Frames :
        /\ \A k \in 1..Len(f.calls) :
              /\ Cardinality(AnswersTo(f, k)) <= 1
              /\ Processed(f, k) => Cardinality(AnswersTo(f, k)) = 1
        /\ \A i \in 1..Len(f.messages) :
              f.messages[i].role = "tool" =>
                 \E k \in 1..Len(f.calls) : f.messages[i].tool_call_id = f.calls[k].id
        /\ (f.pc = "loop" /\ f.step > 0) =>
              /\ Len(f.calls) > 0
              /\ \A k \in 1..Len(f.calls) : Cardinality(AnswersTo(f, k)) = 1
        /\ f.pc = "await_model" => f.messages = <<>>

\* C9 witness: a turn asked for a delegation and then an MCP tool; both are
\* answered and the loop is at its head again.
C9_Witness ==
    /\ stack # <<>>
    /\ Top.pc = "loop" /\ Top.step > 0
    /\ Len(Top.calls) = 2
    /\ Top.calls[1].name = "call_agent" /\ Top.calls[2].name = "x"
    /\ Ran(Top.messages[2])
    /\ Len(Top.messages) = 3

\* C10: the k-th tool message after the assistant message answers the k-th
\* call of the turn; at most one model request, tool call or prompt is in
\* flight in the whole tree, it belongs to the innermost invocation, and
\* every other invocation is suspended on its child.
C10_OneAtATimeInOrder ==
    /\ \A f \in Frames :
          \A i \in 2..Len(f.messages) :
             /\ f.messages[i].role = "tool"
             /\ i - 1 <= Len(f.calls)
             /\ f.messages[i].tool_call_id = f.calls[i - 1].id
    /\ \A f \in Frames : InTurn(f) => Len(f.messages) = f.idx
    /\ Cardinality(inflight) <= 1
    /\ \A op \in inflight :
          /\ stack # <<>>
          /\ op.depth = Top.depth
          /\ Top.pc \in {"await_model", "await_single", "await_confirm", "await_tool"}
    /\ \A i \in 1..(Len(stack) - 1) : stack[i].pc = "await_child"

\* C10 witness: the second call of a turn is a delegation whose child is
\* executing a tool; the first call's message is already in the transcript.
C10_Witness ==
    /\ Len(stack) = 2
    /\ stack[1].idx = 2 /\ Len(stack[1].messages) = 2
    /\ stack[1].calls[1].name = "x"
    /\ \E op \in inflight : op.kind = "tool" /\ op.depth = 1

\* the refusals of the call_agent branch and the results of a nested call
Refused(m) == m.content[1] \in
    {"call_agent refused: maximum recursion depth reached",
     "call_agent requires a non-empty \"query\" string",
     "call_agent failed: unknown agent",
     "call_agent refused: agent is not allowed to call",
     "call_agent refused: target agent not in CLI allowlist (--agents)"}
LastMsg(f) == f.messages[Len(f.messages)]

\* frame q is frame p after p's current tool call got its one tool message
\* and the loop went on: to the turn's next call, or to the next turn
AnsweredAndOn(p, q) ==
    /\ Len(q.messages) = Len(p.messages) + 1
    /\ SubSeq(q.messages, 1, Len(p.messages)) = p.messages
    /\ LastMsg(q).role = "tool"
    /\ LastMsg(q).tool_call_id = p.calls[p.idx].id
    /\ q.calls = p.calls
    /\ IF p.idx < Len(p.calls)
       THEN q.pc = "dispatch" /\ q.idx = p.idx + 1 /\ q.step = p.step
       ELSE q.pc = "loop" /\ q.idx = 0 /\ q.step = p.step + 1

C11_Handled ==
    \A f \in Frames :
        /\ \A k \in 1..Len(f.calls) :
              (Processed(f, k) /\ f.calls[k].name = "call_agent") =>
                 /\ Cardinality(AnswersTo(f, k)) = 1
                 /\ Refused(AnswerTo(f, k)) \/ Ran(AnswerTo(f, k))
        /\ (f.pc = "exit" /\ f.outcome.kind = "throw" /\ f.idx > 0) =>
              f.calls[f.idx].name # "call_agent"

C11_Step ==
    /\ (/\ stack # <<>> /\ Len(stack') = Len(stack)
        /\ Top.pc = "dispatch" /\ Tc.name = "call_agent") =>
          /\ AnsweredAndOn(Top, stack'[Len(stack')])
          /\ Refused(LastMsg(stack'[Len(stack')]))
    /\ (Len(stack) > 1 /\ Len(stack') = Len(stack) - 1) =>
          /\ AnsweredAndOn(stack[Len(stack) - 1], stack'[Len(stack')])
          /\ Ran(LastMsg(stack'[Len(stack')]))
          /\ Top.outcome.kind = "throw" =>
                LastMsg(stack'[Len(stack')]).content[1] \in
                    {"call_agent failed", "call_agent failed (unscoped):"}

\* C11: delegation never crashes the parent loop.  Every call_agent request
\* the loop is past has exactly one tool message, a refusal or the result of
\* the nested call, and no invocation throws out of a call_agent request.  A
\* refused request and a nested invocation that returns or throws each add
\* that one message to the parent's transcript, after which the parent is at
\* the turn's next call or, after the last, at the head of its next turn.
C11_DelegationNeverCrashes == []C11_Handled /\ [][C11_Step]_vars

\* C11 witness: the nested invocation of agent b threw (its confirmation
\* prompt rejected); the parent recorded 'call_agent failed (b)' and is
\* dispatching the second call of the turn.
C11_Witness ==
    /\ Len(stack) = 1
    /\ Top.idx = 2 /\ Top.pc \in {"dispatch", "await_tool", "await_confirm"}
    /\ Top.calls[1].name = "call_agent"
    /\ Top.messages[2].content = <<"call_agent failed", "b", "prompt">>

ModelFailed(f) == f.pc = "exit" /\ f.outcome = [kind |-> "return", value |-> "emsg"]

C12_Stopped ==
    \A f \in Frames :
        ModelFailed(f) =>
            /\ f = Top
            /\ ClosedTimes(f, 1)
            /\ f.modelCalls = f.step + 1
            /\ f.calls = <<>> /\ f.idx = 0 /\ f.messages = <<>>
            /\ inflight = {}

C12_Step ==
    (stack # <<>> /\ ModelFailed(Top)) =>
        /\ Len(stack') = Len(stack) - 1
        /\ Len(stack) = 1 => result' = [kind |-> "return", value |-> "emsg"]
        /\ Len(stack) > 1 =>
              LET p == stack[Len(stack) - 1]
                  q == stack'[Len(stack')]
              IN  /\ AnsweredAndOn(p, q)
                  /\ p.child.scoped =>
                        LastMsg(q).content =
                            <<"call_agent completed:", p.child.target, "emsg">>
                  /\ ~p.child.scoped =>
                        LastMsg(q).content =
                            <<"call_agent completed (unscoped), result:", "emsg">>

Gated(f, name) == name \in app.tools_requires_confirmation /\ ~f.opts.noConfirmations
Declined(m) == m.content[1] = "User declined to run tool"

C13_Gate ==
    /\ \A f \in Frames : \A k \in 1..Len(f.calls) : \A i \in AnswersTo(f, k) :
          Declined(f.messages[i]) =>
             /\ f.messages[i].content = <<"User declined to run tool", f.calls[k].name>>
             /\ RegistryHas(f.registry, f.calls[k].name)
             /\ Gated(f, f.calls[k].name)
    /\ \A op \in inflight : op.kind = "confirm" =>
          /\ inflight = {op}
          /\ Top.pc = "await_confirm" /\ Tc.name = op.name
          /\ RegistryHas(Top.registry, op.name) /\ Gated(Top, op.name)

C13_Step ==
    /\ \A op \in inflight' \ inflight :
          (op.kind = "tool" /\ Gated(Top, op.name)) =>
             /\ Top.pc = "await_confirm"
             /\ Tc.name = op.name
             /\ inflight = {Op("confirm", Top, op.name, "")}
    /\ (/\ stack # <<>> /\ Top.pc = "await_confirm" /\ stack' # stack
        /\ stack'[Len(stack')].pc \notin {"await_tool", "exit"}) =>
          /\ inflight' = {}
          /\ AnsweredAndOn(Top, stack'[Len(stack')])
          /\ LastMsg(stack'[Len(stack')]).content = <<"User declined to run tool", Tc.name>>

\* C13: a call of a registered tool that is in the confirmation-required set
\* goes to its connection only in answer to a confirmation prompt for that
\* very call, unless the invocation runs with noConfirmations; while the
\* prompt is open nothing else is in flight.  When the prompt is declined no
\* call is in flight on any connection, 'User declined to run tool <name>'
\* is that call's one message and the loop is at the next call or turn.
C13_ConfirmationGate == []C13_Gate /\ [][C13_Step]_vars

\* C13 witness: agent b's model asked twice for the gated tool y in one turn;
\* the first prompt was declined, the second answered yes: y is executing.
C13_Witness ==
    /\ stack # <<>>
    /\ Top.opts.agent = "b" /\ ~Top.opts.noConfirmations
    /\ Top.pc = "await_tool" /\ Top.idx = 2
    /\ Top.calls[1].name = "y" /\ Top.calls[2].name = "y"
    /\ Top.messages[2].content = <<"User declined to run tool", "y">>
    /\ \E op \in inflight : op.kind = "tool" /\ op.name = "y" /\ op.server = "s1"

\* the visible callee names, in the claim's words
C14_Expected(f) ==
    LET cat    == DOMAIN app.agents
        active == f.opts.agent # NoName /\ f.opts.agent \in cat
        list   == IF active /\ app.agents[f.opts.agent].hasAllowed
                  THEN app.agents[f.opts.agent].allowedAgents ELSE {}
    IN  IF list # {} THEN list \cap cat
        ELSE IF f.opts.agents # {} THEN cat \cap f.opts.agents
        ELSE cat

\* C14: the enum of target_agent is the set of visible callee names: the
\* active agent's allowedAgents restricted to the catalog when that list is
\* not empty, else the catalog restricted to the CLI allowlist when one is
\* given, else the whole catalog.  The enum key is there if and only if the
\* set is not empty, and it holds no name that is not in the catalog.
C14_EnumIsVisibleSet ==
    \A f \in Frames :
        /\ f.visibleAgentNames = C14_Expected(f)
        /\ f.targetAgentEnumProp.has <=> C14_Expected(f) # {}
        /\ f.targetAgentEnumProp.has => f.targetAgentEnumProp.enum = C14_Expected(f)
        /\ f.targetAgentEnumProp.enum \subseteq DOMAIN app.agents

\* C14 witness: the active agent a lists only a name that is no agent, the
\* CLI allowlist names a and b, both in the catalog: no name is visible and
\* the enum key is left out.
C14_Witness ==
    \E f \in Frames :
        /\ f.opts.agent = "a" /\ f.opts.agents = {"a", "b"}
        /\ DOMAIN app.agents = {"a", "b"}
        /\ app.agents["a"].hasAllowed /\ app.agents["a"].allowedAgents = {"ghost"}
        /\ ~f.targetAgentEnumProp.has

NoActiveAgent(f) == ~f.currentAgent.has
SingleTurn(f) ==
    /\ f.pc \in {"fast", "await_single", "exit"}
    /\ f.modelCalls <= 1
    /\ f.calls = <<>> /\ f.idx = 0

\* C15 as stated: with no active agent the model is sent an empty tool list,
\* the invocation completes in a single turn and the tool dispatch step is
\* never reached.
C15_NoAgentSingleTurn ==
    \A f \in Frames :
        NoActiveAgent(f) => f.allTools = <<>> /\ SingleTurn(f)

\* C15, amended: with no active agent the model is sent no MCP tool: its
\* tool list is the call_agent tool alone, and it is empty, with the
\* invocation completing in a single turn, only under --no-tools.  No
\* prompt and no tool call is ever in flight for such an invocation: a
\* request for a non-delegation tool is answered 'Unknown tool: <name>' and
\* the loop goes on.
C15_NoAgentOnlyCallAgent ==
    \A f \in Frames :
        NoActiveAgent(f) =>
            /\ f.openAITools = <<>> /\ f.registry = <<>> /\ f.connected = <<>>
            /\ f.allTools = IF f.opts.noTools THEN <<>> ELSE <<"call_agent">>
            /\ f.opts.noTools => SingleTurn(f)
            /\ f.pc \notin {"await_confirm", "await_tool"}
            /\ \A op \in inflight : op.depth = f.depth => op.kind = "model"
            /\ \A k \in 1..Len(f.calls) :
                  (Processed(f, k) /\ f.calls[k].name \notin {NoName, "call_agent"}) =>
                     /\ Cardinality(AnswersTo(f, k)) = 1
                     /\ AnswerTo(f, k).content = <<"Unknown tool:", f.calls[k].name>>

\* C15 witness: no --agent; the model, offered call_agent alone, asked for
\* the tool x in its second turn and got 'Unknown tool: x'.
C15_Witness ==
    /\ stack # <<>>
    /\ Top.opts.agent = NoName /\ ~Top.opts.noTools
    /\ Top.allTools = <<"call_agent">>
    /\ Top.pc = "loop" /\ Top.step = 2
    /\ Top.calls[1].name = "x"
    /\ Top.messages[2].content = <<"Unknown tool:", "x">>

UnscopedResult(m) == m.content[1] \in {"call_agent completed (unscoped), result:",
                                       "call_agent failed (unscoped):"}
NoTargetRequest(f, tc) ==
    tc.name = "call_agent" /\ tc.query # "" /\ tc.target = NoName /\ f.depth < MaxDepth

\* C16: a call_agent request with a query and no target_agent goes to the
\* active agent when the invocation has one.  When it has none (no --agent,
\* or a name that is no catalog entry) the delegation runs unscoped: a child
\* without an active agent is started one level deeper, unchecked by any
\* allowlist, and the request's message is the result of that child.
C16_DefaultTarget ==
    /\ \A f \in Frames : \A k \in 1..Len(f.calls) :
          (Processed(f, k) /\ NoTargetRequest(f, f.calls[k])) =>
             /\ Cardinality(AnswersTo(f, k)) = 1
             /\ NoActiveAgent(f) => UnscopedResult(AnswerTo(f, k))
             /\ ~NoActiveAgent(f) =>
                   /\ ~UnscopedResult(AnswerTo(f, k))
                   /\ f.opts.agent \in SeqToSet(AnswerTo(f, k).content)
    /\ \A i \in 1..(Len(stack) - 1) :
          (stack[i].pc = "await_child"
             /\ NoTargetRequest(stack[i], stack[i].calls[stack[i].idx])) =>
             /\ stack[i + 1].depth = stack[i].depth + 1
             /\ NoActiveAgent(stack[i]) =>
                   ~stack[i].child.scoped /\ NoActiveAgent(stack[i + 1])
             /\ ~NoActiveAgent(stack[i]) =>
                   /\ stack[i].child.scoped
                   /\ stack[i + 1].currentAgent.agentName = stack[i].opts.agent

\* C17: while an agent that omits allowedAgents is the active agent, no
\* call_agent request starts a nested invocation: each is refused.
C17_OmittedListForbids ==
    \A f \in Frames :
        (f.currentAgent.has /\ ~f.currentAgent.agent.hasAllowed) =>
            /\ f.pc # "await_child"
            /\ \A k \in 1..Len(f.calls) :
                  (Processed(f, k) /\ f.calls[k].name = "call_agent") =>
                     /\ Cardinality(AnswersTo(f, k)) = 1
                     /\ Refused(AnswerTo(f, k))

\* C18 as stated: when a CLI allowlist is given, the active agent of every
\* nested invocation, anywhere in the call tree, is a member of it.
C18_CliAllowlistEverywhere ==
    \A i \in 2..Len(stack) :
        (stack[i].opts.agents # {} /\ stack[i].currentAgent.has) =>
            stack[i].currentAgent.agentName \in stack[i].opts.agents

\* C18, amended: the CLI allowlist is handed down unchanged to every nested
\* invocation and restricts the delegations of every invocation whose active
\* agent declares no allowedAgents (an invocation without an active agent
\* included): the active agent of a nested invocation such a parent starts
\* is a member of the CLI allowlist.  Under a parent whose active agent
\* declares allowedAgents the child's agent is a member of that list, and
\* the CLI allowlist is not consulted.
C18_CliAllowlistWhenNoAgentList ==
    \A i \in 1..(Len(stack) - 1) :
        LET p == stack[i]
            c == stack[i + 1]
        IN  /\ c.opts.agents = p.opts.agents
            /\ c.currentAgent.has =>
                  /\ (~DeclaresList(p) /\ p.opts.agents # {}) =>
                        c.currentAgent.agentName \in p.opts.agents
                  /\ DeclaresList(p) =>
                        c.currentAgent.agentName \in p.currentAgent.agent.allowedAgents

\* C18 witness: under --agents a,b the agent b, which declares no
\* allowedAgents, has delegated to a, a member of the CLI allowlist.
C18_Witness ==
    /\ Len(stack) >= 2
    /\ stack[1].opts.agent = "b" /\ stack[1].opts.agents = {"a", "b"}
    /\ stack[1].pc = "await_child"
    /\ stack[2].currentAgent.has /\ stack[2].currentAgent.agentName = "a"

\* C19: under --no-tools, an active agent or not, setupTools opens no
\* connection and registers nothing, the request carries no tools (no MCP
\* tool, no call_agent), the invocation makes one model request, exactly one
\* once it has returned, and nothing is dispatched: no tool call, no prompt,
\* no nested invocation, whatever the response holds.
C19_NoToolsDisablesAll ==
    \A f \in Frames :
        f.opts.noTools =>
            /\ f.connected = <<>> /\ f.registry = <<>> /\ f.openAITools = <<>>
            /\ f.allTools = <<>>
            /\ SingleTurn(f)
            /\ (f.pc = "exit" /\ f.outcome.kind = "return") => f.modelCalls = 1
            /\ f.messages = <<>>
            /\ Len(stack) = 1
            /\ \A op \in inflight : op.kind = "model"

\* C19 witness: --no-tools under agent b, whose servers are reachable and
\* advertise tools: the invocation has returned the model's text after its
\* one request, with no connection opened.
C19_Witness ==
    /\ stack # <<>>
    /\ Top.opts.noTools /\ Top.currentAgent.has /\ Top.opts.agent = "b"
    /\ Top.pc = "exit" /\ Top.outcome = [kind |-> "return", value |-> "t"]
    /\ Top.modelCalls = 1
    /\ Top.connected = <<>>

\* C20: one catalog for the whole call tree.  Every invocation observed the
\* catalog the top-level invocation observed; a delegation check calls a
\* target unknown only if it is not in that catalog; and the target a parent
\* validated is the resolved active agent of the child it started, with the
\* definition the parent's catalog holds.
C20_CatalogSharedUnchanged ==
    /\ \A f \in Frames : f.agents = stack[1].agents
    /\ \A f \in Frames : \A k \in 1..Len(f.calls) : \A i \in AnswersTo(f, k) :
          f.messages[i].content[1] = "call_agent failed: unknown agent" =>
             f.messages[i].content[2] \notin DOMAIN f.agents
    /\ \A i \in 1..(Len(stack) - 1) :
          (stack[i].pc = "await_child" /\ stack[i].child.scoped) =>
             /\ stack[i + 1].currentAgent.has
             /\ stack[i + 1].currentAgent.agentName = stack[i].child.target
             /\ stack[i].child.target \in DOMAIN stack[i].agents
             /\ stack[i + 1].currentAgent.agent = stack[i].agents[stack[i].child.target]

\* C30: the catalog loadAgents returns holds every name some source
\* defines, with the definition of the first source that defines it in the
\* order inline config, ./agents, ~/.llm/agents: an inline definition is
\* never overridden by a directory's.
C30_InlineFirst ==
    \A f \in Frames :
        LET inline == app.agents
            cwd    == app.agentDirs[1]
            home   == app.agentDirs[2]
        IN  /\ DOMAIN f.agents = DOMAIN inline \cup DOMAIN cwd \cup DOMAIN home
            /\ \A n \in DOMAIN f.agents :
                  f.agents[n] = IF n \in DOMAIN inline THEN inline[n]
                                ELSE IF n \in DOMAIN cwd THEN cwd[n]
                                ELSE home[n]

\* What does hold: ./agents first, then ~/.llm/agents, then the inline config.
AgentsDirectoriesFirst ==
    \A f \in Frames :
        LET inline == app.agents
            cwd    == app.agentDirs[1]
            home   == app.agentDirs[2]
        IN  /\ DOMAIN f.agents = DOMAIN inline \cup DOMAIN cwd \cup DOMAIN home
            /\ \A n \in DOMAIN f.agents :
                  f.agents[n] = IF n \in DOMAIN cwd THEN cwd[n]
                                ELSE IF n \in DOMAIN home THEN home[n]
                                ELSE inline[n]

\* the scope of an invocation: what it was started with and what it resolved
Scope(f) == <<f.depth, f.opts, f.agents, f.currentAgent, f.visibleAgentNames,
              f.targetAgentEnumProp, f.registry, f.openAITools, f.allTools,
              [i \in 1..Len(f.connected) |-> f.connected[i].name]>>
MinLen == IF Len(stack) < Len(stack') THEN Len(stack) ELSE Len(stack')

C21_ChildScope ==
    \A i \in 1..(Len(stack) - 1) :
        LET p == stack[i]
            c == stack[i + 1]
        IN  /\ p.pc = "await_child"
            /\ c.depth = p.depth + 1
            /\ c.opts.agents = p.opts.agents
            /\ c.opts.noTools = p.opts.noTools
            /\ c.opts.noConfirmations = p.opts.noConfirmations
            /\ p.child.scoped =>
                  /\ p.child.target = EffectiveTarget(p, p.calls[p.idx])
                  /\ p.child.target \in DOMAIN p.agents
                  /\ Admitted(p, p.child.target)
                  /\ c.opts.agent = p.child.target
                  /\ c.currentAgent =
                        [has |-> TRUE, agentName |-> p.child.target,
                         agent |-> p.agents[p.child.target]]
            /\ ~p.child.scoped => c.opts = p.opts /\ NoActiveAgent(c)

C21_Step ==
    /\ \A i \in 1..MinLen : Scope(stack'[i]) = Scope(stack[i])
    /\ (stack # <<>> /\ Len(stack') = Len(stack) + 1) =>
          stack'[Len(stack)].messages = stack[Len(stack)].messages
    /\ \A i \in 1..(MinLen - 1) : stack'[i] = stack[i]
    /\ (Len(stack) > 1 /\ Len(stack') = Len(stack) - 1) =>
          /\ AnsweredAndOn(stack[Len(stack) - 1], stack'[Len(stack')])
          /\ stack'[Len(stack')].lastAssistantText = stack[Len(stack) - 1].lastAssistantText

\* C21: a delegation creates a new scope and leaves the parent's alone.  The
\* child runs one level deeper, with the parent's CLI allowlist and flags
\* and, as its active agent, the target the parent validated (no agent when
\* the delegation is unscoped).  No step changes the scope of an invocation
\* (depth, options, catalog, active agent, visible callees, registry, tools,
\* connections); while a child runs, its ancestors do not change at all;
\* and when it returns or throws the parent's transcript gains the one tool
\* message of the call.
C21_DelegationIsolatesScope == []C21_ChildScope /\ [][C21_Step]_vars

\* C21 witness: agent a delegated to b, b ran its own tool call and
\* returned; a is a again, one message longer, at its next turn.
C21_Witness ==
    /\ Len(stack) = 1
    /\ Top.opts.agent = "a" /\ Top.currentAgent.agentName = "a"
    /\ Top.depth = 0
    /\ Top.registry = <<[name |-> "x", server |-> "s1"]>>
    /\ Top.pc = "loop" /\ Top.step = 1
    /\ Len(Top.messages) = 2
    /\ Top.messages[2].content = <<"call_agent completed:", "b", "t">>

\* lastAssistantText is "" before the first response and after each response
\* with a message its text if that is not empty, else what it was
LastTextInit ==
    \A f \in Frames : f.modelCalls = 0 => f.lastAssistantText = ""
LastTextTracked ==
    \A i \in 1..MinLen :
        LET p == stack[i]
            q == stack'[i]
        IN  IF p.pc = "await_model" /\ q.pc # "await_model" /\ q.messages # <<>>
            THEN q.lastAssistantText =
                    IF q.messages[1].content[1] # "" THEN q.messages[1].content[1]
                    ELSE p.lastAssistantText
            ELSE q.lastAssistantText = p.lastAssistantText

\* the invocation returned from a final turn of the loop: the assistant
\* message of the response is the whole of the turn's transcript
FinalTurnExit(f) ==
    /\ f.pc = "exit" /\ f.outcome.kind = "return"
    /\ Len(f.messages) = 1 /\ f.messages[1].role = "assistant"
FinalText(f) == f.messages[1].content[1]

\* C22 as stated: on a final turn the result is the assistant text of that
\* same response.
C22_FinalTurnText ==
    \A f \in Frames : FinalTurnExit(f) => f.outcome.value = FinalText(f)

C22_Result ==
    /\ LastTextInit
    /\ \A f \in Frames :
          FinalTurnExit(f) =>
             /\ FinalText(f) # "" => f.outcome.value = FinalText(f)
             /\ FinalText(f) = "" => f.outcome.value = f.lastAssistantText

\* C22, amended: on a final turn the result is the assistant text of that
\* same response when it is not empty; when it is empty the result is the
\* most recent non-empty assistant text of an earlier turn of the
\* invocation, and the empty string when there was none.
C22_FinalTurnTextOrLast == []C22_Result /\ [][LastTextTracked]_vars

\* C22 witness: an earlier turn said "t", the final response carries no
\* text: the result is "t".
C22_Witness ==
    /\ stack # <<>>
    /\ FinalTurnExit(Top)
    /\ FinalText(Top) = ""
    /\ Top.step > 0
    /\ Top.outcome.value = "t"

BudgetExit(f) == f.pc = "exit" /\ f.step = MaxTurns

C23_Result ==
    /\ LastTextInit
    /\ \A f \in Frames :
          BudgetExit(f) =>
             /\ f.modelCalls = MaxTurns
             /\ Len(f.calls) > 0
             /\ Len(f.messages) = Len(f.calls) + 1
             /\ \A k \in 1..Len(f.calls) : Cardinality(AnswersTo(f, k)) = 1
             /\ f.outcome.kind = "return"
             /\ f.lastAssistantText # "" => f.outcome.value = f.lastAssistantText
             /\ f.lastAssistantText = "" => f.outcome.value = "finished"
    /\ \A f \in Frames :
          (f.pc = "loop" /\ f.step = MaxTurns) =>
             /\ Len(f.messages) = Len(f.calls) + 1
             /\ \A k \in 1..Len(f.calls) : Cardinality(AnswersTo(f, k)) = 1

C23_Step ==
    /\ LastTextTracked
    /\ \A i \in 1..MinLen :
          (stack[i].step < MaxTurns /\ stack'[i].step = MaxTurns) =>
             stack'[i].pc = "loop"
    /\ \A i \in 1..MinLen :
          (stack[i].pc = "loop" /\ stack[i].step = MaxTurns /\ stack' # stack) =>
             BudgetExit(stack'[i])

\* C23: after 32 turns that were not final the invocation returns.  The
\* tool messages of the 32nd turn are all in the transcript by then, no 33rd
\* request is made, and the result is the most recent non-empty assistant
\* text of any turn, or 'finished' when no turn had any.
C23_BudgetExhausted == []C23_Result /\ [][C23_Step]_vars

\* C23 witness: the budget ran out; the 32nd response had no text, so the
\* result is the text "u" of an earlier turn.
C23_Witness ==
    /\ stack # <<>>
    /\ BudgetExit(Top)
    /\ Top.messages[1].content = <<"">>
    /\ Top.outcome = [kind |-> "return", value |-> "u"]

\* the reasons an invocation that reached its conversation ends for
FastExit(f) ==
    f.pc = "exit" /\ f.allTools = <<>> /\ f.outcome.kind = "return" /\ f.modelCalls = 1
NoMessageExit(f) ==
    /\ f.pc = "exit" /\ f.messages = <<>> /\ f.allTools # <<>>
    /\ f.outcome = [kind |-> "return", value |-> "No message from model"]
PromptThrew(f) ==
    /\ f.pc = "exit" /\ f.outcome = [kind |-> "throw", value |-> "prompt"]
    /\ f.idx \in 1..Len(f.calls)
    /\ NeedsConfirmation(f, f.calls[f.idx].name)
ThreeReasons(f) ==
    FinalTurnExit(f) \/ FastExit(f) \/ ModelFailed(f) \/ BudgetExit(f)

\* C24 as stated: an invocation that has started its conversation ends
\* because of a final turn, a failed model call or the exhaustion of the
\* turn budget, and for no other reason.
C24_ThreeReasons ==
    \A f \in Frames : (f.pc = "exit" /\ tzValid) => ThreeReasons(f)

C24_Reasons ==
    \A f \in Frames :
        (f.pc = "exit" /\ tzValid) =>
            ThreeReasons(f) \/ NoMessageExit(f) \/ PromptThrew(f)

\* an invocation ends only from the head of the loop (budget), from a model
\* call or from the confirmation prompt; from a tool call in flight, from a
\* running child and from the dispatcher it goes on
C24_Step ==
    \A i \in 1..MinLen :
        LET p == stack[i]
            q == stack'[i]
        IN  /\ (p.pc # "exit" /\ q.pc = "exit") =>
                  \/ p.pc = "loop" /\ p.step = MaxTurns
                  \/ p.pc \in {"await_model", "await_single"}
                  \/ p.pc = "await_confirm" /\ PromptThrew(q)
            /\ p.pc \in {"dispatch", "await_tool", "await_child"} =>
                  q.pc \in {p.pc, "dispatch", "loop", "await_tool",
                            "await_child", "await_confirm"}

\* C24, amended: an invocation that has started its conversation ends for
\* one of five reasons: a final turn, a response without a message, a
\* failed model call, the exhaustion of the turn budget, or an error thrown
\* by the confirmation prompt.  A tool failure, a refused delegation, a
\* failed child, an unknown or unnamed tool and a declined confirmation
\* never stop it.
C24_FiveReasons == []C24_Reasons /\ [][C24_Step]_vars

\* C24 witness: the response of the second turn has no message; the
\* invocation returns 'No message from model'.
C24_Witness ==
    /\ stack # <<>>
    /\ NoMessageExit(Top)
    /\ Top.step = 1
    /\ Top.modelCalls = 2

\* the tool messages of frame f that answer its call_agent requests
DelegationAnswers(f) ==
    {<<k, AnswerTo(f, k)>> : k \in {j \in 1..Len(f.calls) :
        f.calls[j].name = "call_agent" /\ AnswersTo(f, j) # {}}}

\* the forms the message contract lists for a delegation
DocumentedForms ==
    {"call_agent requires a non-empty \"query\" string",
     "call_agent failed: unknown agent",
     "call_agent refused: agent is not allowed to call",
     "call_agent refused: target agent not in CLI allowlist",
     "call_agent refused: maximum recursion depth reached",
     "call_agent completed:",
     "call_agent failed"}

\* C25 as stated: every tool message of a delegation has one of the
\* documented forms: a child that ran to completion, scoped or unscoped,
\* gives 'call_agent completed: <target>' and its result, a refusal by the
\* CLI allowlist exactly 'call_agent refused: target agent '<target>' not in
\* CLI allowlist'.
C25_DocumentedForms ==
    \A f \in Frames : \A a \in DelegationAnswers(f) :
        /\ a[2].content[1] \in DocumentedForms
        /\ Ran(a[2]) => Len(a[2].content) = 3 /\ a[2].content[2] \in AgentNames

C25_Shapes ==
    \A f \in Frames : \A a \in DelegationAnswers(f) :
        LET c  == a[2].content
            tc == f.calls[a[1]]
            t  == EffectiveTarget(f, tc)
        IN  \/ c = DepthRefusal /\ f.depth = MaxDepth
            \/ c = <<"call_agent requires a non-empty \"query\" string">> /\ tc.query = ""
            \/ c = <<"call_agent failed: unknown agent", t>> /\ t # NoName
            \/ c = <<"call_agent refused: agent is not allowed to call", f.opts.agent, t>>
            \/ /\ c = <<"call_agent refused: target agent not in CLI allowlist (--agents)", t>>
               /\ t \notin f.opts.agents
            \/ /\ Len(c) = 3 /\ c[1] \in {"call_agent completed:", "call_agent failed"}
               /\ c[2] = t /\ t # NoName
            \/ /\ Len(c) = 2
               /\ c[1] \in {"call_agent completed (unscoped), result:",
                            "call_agent failed (unscoped):"}
               /\ t = NoName

C25_Step ==
    (Len(stack) > 1 /\ Len(stack') = Len(stack) - 1) =>
        LET p == stack[Len(stack) - 1]
            c == stack[Len(stack)]
            v == c.outcome.value
            t == EffectiveTarget(p, p.calls[p.idx])
        IN  LastMsg(stack'[Len(stack')]).content =
               IF t # NoName
               THEN IF c.outcome.kind = "return"
                    THEN <<"call_agent completed:", t, v>>
                    ELSE <<"call_agent failed", t, v>>
               ELSE IF c.outcome.kind = "return"
                    THEN <<"call_agent completed (unscoped), result:", v>>
                    ELSE <<"call_agent failed (unscoped):", v>>

\* C25, amended: every tool message of a delegation has one of the forms
\* the dispatcher writes.  A child with a target that returned gives
\* 'call_agent completed: <target>' and its result, one that threw
\* 'call_agent failed (<target>): <message>'; an unscoped child gives
\* 'call_agent completed (unscoped), result:' and its result, or
\* 'call_agent failed (unscoped): <message>'; a refusal by the CLI allowlist
\* is 'call_agent refused: target agent '<target>' not in CLI allowlist
\* (--agents)'; the other refusals are as documented.
C25_DelegationForms == []C25_Shapes /\ [][C25_Step]_vars

\* C25 witness: an invocation without an agent delegated without a target;
\* the child returned "t" and the message has the unscoped form.
C25_Witness ==
    /\ stack # <<>>
    /\ NoActiveAgent(Top)
    /\ \E a \in DelegationAnswers(Top) :
          a[2].content = <<"call_agent completed (unscoped), result:", "t">>

ToolFailure(m) == m.content[1] = "Tool failed:"

C27_Recorded ==
    /\ \A f \in Frames : \A k \in 1..Len(f.calls) : \A i \in AnswersTo(f, k) :
          ToolFailure(f.messages[i]) =>
             /\ f.messages[i].content = <<"Tool failed:", f.calls[k].name, "msg">>
             /\ RegistryHas(f.registry, f.calls[k].name)
             /\ AnswersTo(f, k) = {i}
    /\ (Running /\ Top.pc = "loop" /\ Top.step < MaxTurns) => ENABLED CallModel

C27_Step ==
    (stack # <<>> /\ Top.pc = "await_tool" /\ stack' # stack) =>
        LET q == stack'[Len(stack')]
        IN  /\ Len(stack') = Len(stack)
            /\ q.pc # "exit"
            /\ AnsweredAndOn(Top, q)
            /\ LastMsg(q).content \in
                  {<<"">>, <<"r">>, <<"Tool failed:", Tc.name, "msg">>}
            /\ Scope(q) = Scope(Top)

\* C27: a failure of an MCP tool execution is never fatal.  The step that
\* ends a callTool, failed or not, leaves the invocation running with one
\* more tool message, the one of that call ('Tool <name> failed: <message>'
\* for a failure), at the next call of the turn or, after the last one, at
\* the head of the next turn, where the next model call can be made.
C27_ToolFailureNotFatal == []C27_Recorded /\ [][C27_Step]_vars

\* C27 witness: the first call of the turn failed and has its message; the
\* second call of the turn is executing.
C27_Witness ==
    /\ stack # <<>>
    /\ Top.pc = "await_tool" /\ Top.idx = 2
    /\ AnswersTo(Top, 1) # {}
    /\ AnswerTo(Top, 1).content = <<"Tool failed:", Top.calls[1].name, "msg">>

\* the servers frame f holds a connection to or a tool of
ServersUsed(f) ==
    {f.connected[i].name : i \in 1..Len(f.connected)}
        \cup {f.registry[i].server : i \in 1..Len(f.registry)}

\* C28: an agent gets connections and tools only from servers that are
\* enabled and are keys of its servers map: every server an invocation
\* holds a connection to, or has a tool of, is both.  An agent whose
\* servers map is empty or omitted has no connection, no registry entry
\* and no tool.
C28_EnabledAndListedOnly ==
    \A f \in Frames :
        /\ \A n \in ServersUsed(f) :
              /\ ServerConf(n).enabled
              /\ f.currentAgent.has
              /\ f.currentAgent.agent.hasServers
              /\ n \in DOMAIN f.currentAgent.agent.servers
        /\ (f.currentAgent.has /\ (~f.currentAgent.agent.hasServers
                                     \/ DOMAIN f.currentAgent.agent.servers = {})) =>
              /\ f.connected = <<>>
              /\ f.registry = <<>>
              /\ f.openAITools = <<>>

\* C28 witness: agent a lists s1 and s2; s1 is disabled though it would
\* accept the connection and list its tools: a is connected to s2 alone.
C28_Witness ==
    \E f \in Frames :
        /\ f.currentAgent.has /\ ~f.opts.noTools
        /\ DOMAIN f.currentAgent.agent.servers = {"s1", "s2"}
        /\ ~ServerConf("s1").enabled
        /\ world["s1"].connects /\ world["s1"].lists
        /\ ServersUsed(f) = {"s2"}
        /\ f.registry = <<[name |-> "x", server |-> "s2"]>>

\* what server n exposes globally: its own include and exclude lists
GloballyExposed(n, t) ==
    /\ t \in SeqToSet(world[n].tools)
    /\ t \notin ServerConf(n).exclude_tools
    /\ (ServerConf(n).include_tools = {} \/ t \in ServerConf(n).include_tools)

\* the active agent with the policy of every server of its map emptied
Unrestricted(agentScope) ==
    [agentScope EXCEPT !.agent.servers = [n \in DOMAIN @ |-> NoPolicy]]

\* C29: an agent can only narrow what a server exposes globally.  For every
\* server of the agent's map and every tool, visible under the agent's
\* policy implies visible under the same global policy with an empty agent
\* policy; every registry entry is a tool its server exposes globally; and
\* the tools of the invocation are among those the same agent would get
\* with empty policies.
C29_AgentOnlyNarrows ==
    \A f \in Frames :
        f.currentAgent.has =>
            /\ \A n \in DOMAIN f.currentAgent.agent.servers : \A t \in ToolNames :
                  ToolVisible(t, ServerConf(n), AgentPolicy(f.currentAgent, n)) =>
                     /\ ToolVisible(t, ServerConf(n), NoPolicy)
                     /\ t \in SeqToSet(world[n].tools) => GloballyExposed(n, t)
            /\ \A i \in 1..Len(f.registry) :
                  GloballyExposed(f.registry[i].server, f.registry[i].name)
            /\ SeqToSet(f.openAITools) \subseteq
                  SeqToSet(SetupTools(app, f.opts, Unrestricted(f.currentAgent),
                                      world).openAITools)

\* C29 witness: s1 exposes x, y and z globally; agent a excludes y and is
\* left with x and z.
C29_Witness ==
    \E f \in Frames :
        /\ f.currentAgent.has /\ ~f.opts.noTools
        /\ DOMAIN f.currentAgent.agent.servers = {"s1"}
        /\ f.currentAgent.agent.servers["s1"] = Policy({}, {"y"})
        /\ \A t \in ToolNames : GloballyExposed("s1", t)
        /\ f.registry = <<[name |-> "x", server |-> "s1"], [name |-> "z", server |-> "s1"]>>

\* the servers setupTools tries to connect for frame f, and their names in
\* the order of the configuration
Eligible(f) ==
    {n \in {"s1", "s2"} :
        /\ ServerConf(n).enabled /\ ServerConf(n).transport
        /\ f.currentAgent.has /\ f.currentAgent.agent.hasServers
        /\ n \in DOMAIN f.currentAgent.agent.servers
        /\ ~f.opts.noTools}
ConnectedNames(f) == [i \in 1..Len(f.connected) |-> f.connected[i].name]
ListFailed(f) == {n \in Eligible(f) : world[n].connects /\ ~world[n].lists}

\* setupTools with failing servers: it returns; the connection list holds
\* the eligible servers that accepted the connection, in order, those whose
\* listTools failed included; the registry holds the visible tools of the
\* servers that listed and nothing of the others
C26_SetupSurvives ==
    \A f \in Frames :
        /\ SeqToSet(ConnectedNames(f)) = {n \in Eligible(f) : world[n].connects}
        /\ \A i, j \in 1..Len(f.connected) :
              (i < j) => (f.connected[i].name = "s1" /\ f.connected[j].name = "s2")
        /\ ListFailed(f) \subseteq SeqToSet(ConnectedNames(f))
        /\ \A i \in 1..Len(f.registry) :
              /\ f.registry[i].server \in Eligible(f)
              /\ world[f.registry[i].server].connects
              /\ world[f.registry[i].server].lists
        /\ \A t \in ToolNames :
              RegistryHas(f.registry, t) <=>
                 \E n \in Eligible(f) :
                    /\ world[n].connects /\ world[n].lists
                    /\ t \in SeqToSet(world[n].tools)
                    /\ C2_Passes(f, n, t)
        /\ (f.pc = "exit" /\ f.outcome.kind = "throw") =>
              f.outcome.value \in {"RangeError", "prompt"}

\* C26 as stated: a failure to connect to a server or to list its tools
\* does not abort setupTools, the failing server contributes no tool and
\* the other eligible servers are connected with their visible tools
\* registered; a server that accepted the connection and failed listTools
\* is in the connection list of the invocation and is closed when the
\* invocation exits.
C26_FailuresSurvivedAndClosed ==
    /\ C26_SetupSurvives
    /\ \A f \in Frames : \A i \in 1..Len(f.connected) :
          (f.connected[i].name \in ListFailed(f) /\ f.pc = "exit") =>
             f.connected[i].closes = 1

\* What does hold: the same, for the invocations that exit from inside the
\* try block (the date banner's throw, C6, is the one exit that is not).
C26_ClosedOnExitFromTry == tzValid => C26_FailuresSurvivedAndClosed

\* a server that failed listTools, still connected, next to a server whose
\* tools are registered, in an invocation that has exited
C26_WitnessListFailed ==
    \E f \in Frames :
        /\ ListFailed(f) = {"s1"}
        /\ ConnectedNames(f) = <<"s1", "s2">>
        /\ f.registry = <<[name |-> "x", server |-> "s2"]>>
        /\ f.pc = "exit" /\ f.outcome.kind = "return"
        /\ ClosedTimes(f, 1)

QueryRefusal == <<"call_agent requires a non-empty \"query\" string">>
FailsQuery(tc) == tc.query = ""
FailsCatalog(f, tc) ==
    EffectiveTarget(f, tc) # NoName /\ EffectiveTarget(f, tc) \notin DOMAIN f.agents
FailsAllowlist(f, tc) ==
    /\ EffectiveTarget(f, tc) # NoName
    /\ EffectiveTarget(f, tc) \in DOMAIN f.agents
    /\ ~Admitted(f, EffectiveTarget(f, tc))

\* C31 as stated: the checks of a delegation are made in the order empty
\* query, unknown agent, allowlist, recursion depth: a request with an empty
\* query has the non-empty-query message and a request with a query for an
\* unknown agent the unknown-agent message, at depth 5 as at any other.
C31_QueryFirst ==
    \A f \in Frames : \A a \in DelegationAnswers(f) :
        LET tc == f.calls[a[1]]
        IN  /\ FailsQuery(tc) => a[2].content = QueryRefusal
            /\ (~FailsQuery(tc) /\ FailsCatalog(f, tc)) =>
                  a[2].content = <<"call_agent failed: unknown agent",
                                   EffectiveTarget(f, tc)>>

\* C31, amended: the checks of a delegation are made in the order recursion
\* depth, empty query, unknown agent, allowlist (the active agent's list
\* when it declares one, else the CLI list), and a request that fails
\* several has the message of the first it fails in that order: at depth 5
\* every request has the depth refusal, whatever its query and target.
C31_DepthFirst ==
    \A f \in Frames : \A a \in DelegationAnswers(f) :
        LET tc == f.calls[a[1]]
            c  == a[2].content
            t  == EffectiveTarget(f, tc)
        IN  IF f.depth >= MaxDepth THEN c = DepthRefusal
            ELSE IF FailsQuery(tc) THEN c = QueryRefusal
            ELSE IF FailsCatalog(f, tc)
            THEN c = <<"call_agent failed: unknown agent", t>>
            ELSE IF FailsAllowlist(f, tc)
            THEN IF DeclaresList(f)
                 THEN c = <<"call_agent refused: agent is not allowed to call",
                            f.opts.agent, t>>
                 ELSE c = <<"call_agent refused: target agent not in CLI allowlist (--agents)", t>>
            ELSE Ran(a[2])

\* C31 witness: at depth 5 a request with an empty query was answered with
\* the depth refusal.
C31_Witness ==
    \E f \in Frames : \E a \in DelegationAnswers(f) :
        /\ f.depth = MaxDepth
        /\ FailsQuery(f.calls[a[1]])
        /\ a[2].content = DepthRefusal

\* the position of a server in the iteration order of the configuration, the
\* servers that expose tool t to frame f, and the last of them
ServerIndex(n) == CHOOSE i \in 1..Len(app.mcpServers) : app.mcpServers[i].name = n
Exposers(f, t) ==
    {n \in ListedServers(f) : t \in SeqToSet(world[n].tools) /\ C2_Passes(f, n, t)}
LastExposer(f, t) ==
    CHOOSE n \in Exposers(f, t) : \A m \in Exposers(f, t) : ServerIndex(m) <= ServerIndex(n)
Distinct(seq) == \A i, j \in 1..Len(seq) : seq[i] = seq[j] => i = j

\* C32: when several connected servers expose a visible tool of the same
\* name, the registry has one entry for the name, owned by the server that
\* comes last in the configuration; the tool list sent to the model holds
\* each name once; and a call of the name is executed on the connection of
\* that last server only.
C32_LastServerOwns ==
    /\ \A f \in Frames :
          /\ Distinct([i \in 1..Len(f.registry) |-> f.registry[i].name])
          /\ Distinct(f.openAITools)
          /\ Distinct(f.allTools)
          /\ \A i \in 1..Len(f.registry) :
                /\ Exposers(f, f.registry[i].name) # {}
                /\ f.registry[i].server = LastExposer(f, f.registry[i].name)
    /\ \A op \in inflight :
          op.kind = "tool" =>
             /\ \A other \in inflight : (other.kind = "tool" /\ other.name = op.name) => other = op
             /\ \E f \in Frames :
                   /\ f.depth = op.depth
                   /\ op.server = LastExposer(f, op.name)

\* C32 witness: s1 and s2 both expose x to agent b; the registry has x once,
\* owned by s2, and the call of x is executing on s2.
C32_Witness ==
    /\ stack # <<>>
    /\ Top.opts.agent = "b"
    /\ Exposers(Top, "x") = {"s1", "s2"}
    /\ Cardinality({i \in 1..Len(Top.registry) : Top.registry[i].name = "x"}) = 1
    /\ Top.pc = "await_tool"
    /\ inflight = {ToolOp(Top, "x")}
    /\ ToolOp(Top, "x").server = "s2"

\* the frame a tool call in flight belongs to
FrameOf(op) == CHOOSE f \in Frames : f.depth = op.depth
InvalidJson(raw) == raw # "" /\ ~JsonParse(raw).ok

C33_Arguments ==
    \A op \in inflight :
        op.kind = "tool" =>
            LET f   == FrameOf(op)
                raw == f.calls[f.idx].arguments
            IN  /\ f.pc = "await_tool"
                /\ op.name = f.calls[f.idx].name
                /\ op.server = RegistryGet(f.registry, op.name).server
                /\ raw = "" => op.arguments = EmptyObject
                /\ InvalidJson(raw) => op.arguments = RawText(raw)
                /\ raw = "{\"k\": 1}" => op.arguments = JsonObject("k: 1")
                /\ raw = "null" => op.arguments = EmptyObject

C33_Step ==
    (/\ stack # <<>> /\ Top.pc = "dispatch" /\ stack' # stack
     /\ Tc.name # NoName /\ Tc.name # "call_agent"
     /\ RegistryHas(Top.registry, Tc.name)
     /\ ~Gated(Top, Tc.name)) =>
        /\ Len(stack') = Len(stack)
        /\ stack'[Len(stack')] = [Top EXCEPT !.pc = "await_tool"]
        /\ \E op \in inflight' :
              /\ inflight' = inflight \cup {op}
              /\ op.kind = "tool" /\ op.name = Tc.name /\ op.depth = Top.depth

\* C33: argument parsing never rejects a call.  A call of a registered tool
\* that needs no confirmation goes to the connection of the tool's owner
\* whatever its raw arguments are: with the raw text as arguments when that
\* is no valid JSON, with an empty object when it is empty (or the JSON
\* null), with the parsed value otherwise; no tool message is written in
\* place of the call.
C33_ArgumentsBestEffort == []C33_Arguments /\ [][C33_Step]_vars

\* C33 witness: the model called x with arguments that are no JSON; x is
\* executing with the raw text as its arguments.
C33_Witness ==
    /\ stack # <<>>
    /\ Top.pc = "await_tool"
    /\ Tc.name = "x" /\ Tc.arguments = "k=1"
    /\ \E op \in inflight :
          op.kind = "tool" /\ op.name = "x" /\ op.arguments = RawText("k=1")

C34_NothingDispatched ==
    \A f \in Frames :
        f.finish = "stop" =>
            /\ f.pc = "exit"
            /\ f.outcome.kind = "return"
            /\ f.idx = 0
            /\ f.child = NoChild
            /\ Len(f.messages) = 1 /\ f.messages[1].role = "assistant"
            /\ \A k \in 1..Len(f.calls) : AnswersTo(f, k) = {}
            /\ \A op \in inflight : op.depth # f.depth

C34_Step ==
    \A i \in 1..MinLen :
        LET p == stack[i]
            q == stack'[i]
        IN  /\ (p.finish # "stop" /\ q.finish = "stop") =>
                  /\ p.pc = "await_model"
                  /\ Len(stack') = Len(stack)
                  /\ inflight' = {}
            /\ p.finish = "stop" => q = p

\* C34: a response that signals stop ends the invocation at once, tool calls
\* or not: the step that receives it leaves the invocation returning, with
\* the assistant message as the only new message; none of the response's
\* calls is ever dispatched (no tool execution, no prompt, no child, no tool
\* message) and the invocation does nothing more until its caller has the
\* result.
C34_StopIsFinal == []C34_NothingDispatched /\ [][C34_Step]_vars

\* C34 witness: the response signalled stop and carried a call of x and a
\* delegation; the invocation is returning and neither was dispatched.
C34_Witness ==
    /\ stack # <<>>
    /\ Top.finish = "stop"
    /\ Len(Top.calls) = 2
    /\ Top.calls[1].name = "x" /\ Top.calls[2].name = "call_agent"
    /\ RegistryHas(Top.registry, "x")
    /\ Top.pc = "exit" /\ Top.messages = <<AssistantMsg("t")>>
    /\ inflight = {}

\* the names the invocation advertised in the enum of target_agent
Advertised(f) == f.targetAgentEnumProp.enum

\* C35: enforcement is at least as strict as advertisement.  A child with a
\* named target runs only for a target the parent advertised in the enum of
\* its call_agent tool, and every message that reports such a child names
\* an advertised target.
C35_StartedOnlyIfAdvertised ==
    /\ \A i \in 1..(Len(stack) - 1) :
          stack[i].child.scoped =>
             /\ stack[i].child.target \in Advertised(stack[i])
             /\ stack[i].child.target \in stack[i].visibleAgentNames
    /\ \A f \in Frames : \A a \in DelegationAnswers(f) :
          (Ran(a[2]) /\ EffectiveTarget(f, f.calls[a[1]]) # NoName) =>
             EffectiveTarget(f, f.calls[a[1]]) \in Advertised(f)

\* What does hold: the same, as long as the agent files stay as they were
\* when the invocation advertised its callees.
StartedOnlyIfAdvertisedUnchanged ==
    app.agentDirs = <<NoFiles, NoFiles>> => C35_StartedOnlyIfAdvertised

\* a request the claim says is accepted: below depth 5, with a query, for a
\* target of the enum
AdvertisedRequest(f, tc) ==
    /\ tc.name = "call_agent" /\ tc.query # ""
    /\ f.depth < MaxDepth
    /\ tc.target # NoName /\ tc.target \in Advertised(f)

\* C36: advertisement is never wider than enforcement.  Below depth 5 a
\* call_agent request with a query whose target_agent is a name of the enum
\* starts a child and is answered with that child's outcome, never with a
\* refusal or an unknown-agent message, an active agent with an empty
\* allowedAgents list included.
C36_AdvertisedIsAccepted ==
    \A f \in Frames : \A a \in DelegationAnswers(f) :
        AdvertisedRequest(f, f.calls[a[1]]) =>
            /\ Ran(a[2])
            /\ a[2].content[2] = f.calls[a[1]].target

\* What does hold: the same for every invocation whose active agent does
\* not declare an empty allowedAgents list.
EmptyAllowedList(f) ==
    /\ f.currentAgent.has /\ f.currentAgent.agent.hasAllowed
    /\ f.currentAgent.agent.allowedAgents = {}
AdvertisedIsAcceptedUnlessEmptyList ==
    \A f \in Frames : \A a \in DelegationAnswers(f) :
        (AdvertisedRequest(f, f.calls[a[1]]) /\ ~EmptyAllowedList(f)) =>
            /\ Ran(a[2])
            /\ a[2].content[2] = f.calls[a[1]].target

\* an agent with an empty list was asked for an advertised target
AdvertisedRefusedUnderEmptyList ==
    \E f \in Frames : \E a \in DelegationAnswers(f) :
        /\ EmptyAllowedList(f)
        /\ AdvertisedRequest(f, f.calls[a[1]])
        /\ a[2].content = <<"call_agent refused: agent is not allowed to call",
                            f.opts.agent, f.calls[a[1]].target>>

\* an invocation holds connections that are open: close() was not called
HoldsOpen(f) == \E i \in 1..Len(f.connected) : f.connected[i].closes = 0
C37_ChainOpen ==
    /\ \A f \in Frames : f.pc # "exit" => ClosedTimes(f, 0)
    /\ \A i \in 1..(Len(stack) - 1) :
          stack[i].pc = "await_child" /\ ClosedTimes(stack[i], 0)
    /\ Cardinality({i \in 1..Len(stack) : HoldsOpen(stack[i])}) <= MaxDepth + 1

\* an invocation leaves the call chain with every connection it opened closed
\* once, before its caller has its outcome
C37_LeavesClosed ==
    (stack # <<>> /\ Len(stack') = Len(stack) - 1) =>
        /\ Top.pc = "exit"
        /\ ClosedTimes(Top, 1)

\* C37: the open tool connections are exactly those of the invocations on
\* the active call chain.  A running invocation and its ancestors have all
\* their connections open, an invocation leaves the chain (its parent then
\* appends its message) only with all its connections closed, and at most
\* 6 invocations hold open connections at once.
C37_OpenExactlyOnChain == []C37_ChainOpen /\ [][C37_LeavesClosed]_vars

\* What does hold: the same, for the invocations that exit from inside the
\* try block (the date banner's throw, C6, is the one exit that is not).
C37_OpenOnChainFromTry ==
    []C37_ChainOpen /\ [][tzValid => C37_LeavesClosed]_vars

\* six invocations with open connections, the innermost running
C37_WitnessSix ==
    /\ Len(stack) = MaxDepth + 1
    /\ \A i \in 1..Len(stack) : HoldsOpen(stack[i])

\* What does hold of C32 when servers expose a tool called call_agent: the
\* registry and the MCP part of the tool list have each name once, owned by
\* the last server that exposes it, and calls go to that owner; the list
\* sent to the model then has call_agent twice, the MCP tool and the
\* virtual one.
RegistryLastWins ==
    /\ \A f \in Frames :
          /\ Distinct([i \in 1..Len(f.registry) |-> f.registry[i].name])
          /\ Distinct(f.openAITools)
          /\ \A i \in 1..Len(f.registry) :
                /\ Exposers(f, f.registry[i].name) # {}
                /\ f.registry[i].server = LastExposer(f, f.registry[i].name)
          /\ ~Distinct(f.allTools) <=> RegistryHas(f.registry, "call_agent")
    /\ \A op \in inflight :
          op.kind = "tool" => op.server = LastExposer(FrameOf(op), op.name)

DelegationForms ==
    {"call_agent refused: maximum recursion depth reached",
     "call_agent requires a non-empty \"query\" string",
     "call_agent failed: unknown agent",
     "call_agent refused: agent is not allowed to call",
     "call_agent refused: target agent not in CLI allowlist (--agents)",
     "call_agent completed:", "call_agent failed",
     "call_agent completed (unscoped), result:", "call_agent failed (unscoped):"}

C38_NeverOnConnection ==
    /\ \A op \in inflight : op.kind \in {"tool", "confirm"} => op.name # "call_agent"
    /\ \A f \in Frames :
          /\ f.pc \in {"await_tool", "await_confirm"} => f.calls[f.idx].name # "call_agent"
          /\ f.pc = "await_child" => f.calls[f.idx].name = "call_agent"
          /\ \A a \in DelegationAnswers(f) : a[2].content[1] \in DelegationForms

C38_Step ==
    (stack # <<>> /\ Top.pc = "dispatch" /\ Tc.name = "call_agent" /\ stack' # stack) =>
        /\ inflight' = inflight
        /\ \/ /\ Len(stack') = Len(stack) + 1
              /\ stack'[Len(stack)] = [Top EXCEPT !.pc = "await_child",
                                                  !.child = stack'[Len(stack)].child]
           \/ /\ Len(stack') = Len(stack)
              /\ AnsweredAndOn(Top, stack'[Len(stack')])
              /\ Refused(LastMsg(stack'[Len(stack')]))

\* C38: the virtual tool shadows an MCP tool of its name.  A tool call named
\* call_agent is handled as a delegation in one step, by a refusal or by
\* starting a child, whatever the registry holds and whatever the
\* requires_confirmation lists name: no callTool and no confirmation prompt
\* for call_agent is ever in flight.
C38_CallAgentShadows == []C38_NeverOnConnection /\ [][C38_Step]_vars

\* C38 witness: agent b has the MCP tool call_agent of s2 in its registry
\* and the name is in the confirmation-required set; its call of call_agent
\* started a child, and nothing is in flight on a connection or at the
\* prompt.
C38_Witness ==
    /\ Len(stack) = 2
    /\ stack[1].opts.agent = "b"
    /\ RegistryHas(stack[1].registry, "call_agent")
    /\ RegistryGet(stack[1].registry, "call_agent").server = "s2"
    /\ "call_agent" \in app.tools_requires_confirmation
    /\ stack[1].pc = "await_child"
    /\ stack[2].pc = "loop"
    /\ inflight = {}

\* the name is in the requires_confirmation list of some configured server
ListedAnywhere(name) ==
    \E i \in 1..Len(app.mcpServers) : name \in app.mcpServers[i].requires_confirmation

\* the dispatcher is at a call of a registered MCP tool and acts
DispatchesRegistered ==
    /\ stack # <<>> /\ Top.pc = "dispatch" /\ stack' # stack
    /\ Tc.name # NoName /\ Tc.name # "call_agent"
    /\ RegistryHas(Top.registry, Tc.name)

\* C39 as stated: a registered tool is gated by a prompt if and only if its
\* name is in the requires_confirmation list of any configured server.
C39_GatedIffListed ==
    [][DispatchesRegistered =>
          (stack'[Len(stack')].pc = "await_confirm" <=> ListedAnywhere(Tc.name))]_vars

C39_Set ==
    /\ app.tools_requires_confirmation =
          UNION {app.mcpServers[i].requires_confirmation : i \in 1..Len(app.mcpServers)}
    /\ \A op \in inflight :
          op.kind = "confirm" =>
             /\ ListedAnywhere(op.name)
             /\ RegistryHas(FrameOf(op).registry, op.name)
             /\ ~FrameOf(op).opts.noConfirmations

C39_Step ==
    DispatchesRegistered =>
        /\ Len(stack') = Len(stack)
        /\ stack'[Len(stack')].pc \in {"await_confirm", "await_tool"}
        /\ stack'[Len(stack')].pc = "await_confirm" <=>
              (ListedAnywhere(Tc.name) /\ ~Top.opts.noConfirmations)

\* C39, amended: confirmation is keyed by tool name only.  The
\* confirmation-required set is the union of the requires_confirmation
\* lists of all configured servers, disabled servers and servers outside
\* the active agent's scope included; unless confirmations are waived
\* (--no-confirmations), a registered tool is gated by a prompt if and only
\* if its name is in any server's list, whichever server owns the tool;
\* when they are waived no tool is gated.
C39_GatedIffListedUnlessWaived == []C39_Set /\ [][C39_Step]_vars

\* C39 witness: only the disabled server s1 lists x; agent b's x is owned by
\* s2 and its call waits at the prompt.
C39_Witness ==
    /\ stack # <<>>
    /\ ~ServerConf("s1").enabled
    /\ ServerConf("s1").requires_confirmation = {"x"}
    /\ ServerConf("s2").requires_confirmation = {}
    /\ Top.opts.agent = "b"
    /\ Top.pc = "await_confirm" /\ Tc.name = "x"
    /\ RegistryGet(Top.registry, "x").server = "s2"
    /\ inflight = {Op("confirm", Top, "x", "")}

====
